---- MODULE Spec2Model ----
(***************************************************************************)
(* Model of the productivity tracker's task log and of the metrics that    *)
(* are derived from it.                                                    *)
(*                                                                         *)
(* The stored state is the relational store of src/app/models/database.py *)
(* (tables tasks and daily_tasks) together with the tables achievements    *)
(* and challenge_history that the motivation engines read and write.       *)
(* Each HTTP handler of src/blueprints/api.py and each engine entry point  *)
(* of src/services/motivation is one action: a handler runs in one         *)
(* request and commits once, so it is atomic.  A handler that raises is    *)
(* turned into a 500 response by handle_errors (src/utils/helpers.py) and  *)
(* its uncommitted writes are lost with the request's connection.          *)
(*                                                                         *)
(* Calendar dates are day numbers (an ISO date string and its date object  *)
(* are in one-to-one correspondence, and the code only compares them and   *)
(* steps by one day).  Columns no modelled operation reads (title text,    *)
(* description, notes, display_order, actual_time, created_at) are left    *)
(* out of the rows.                                                        *)
(***************************************************************************)
EXTENDS Integers, FiniteSets, Sequences, TLC

VARIABLES
    tasks,              \* table tasks: set of rows
    daily_tasks,        \* table daily_tasks: set of rows
    next_task_id,       \* AUTOINCREMENT counter of tasks
    next_daily_id,      \* AUTOINCREMENT counter of daily_tasks
    achievements,       \* table achievements: ids with unlocked_at set
    times_unlocked,     \* history: achievement id -> times returned as new
    challenge_history,  \* table challenge_history: set of rows
    today,              \* date.today()
    ret                 \* the response of the last request

vars == <<tasks, daily_tasks, next_task_id, next_daily_id,
          achievements, times_unlocked, challenge_history, today, ret>>

-----------------------------------------------------------------------------
(* Bounds of the model *)

MaxDate == 3       \* the calendar is the days 1..MaxDate
MaxDaily == 3      \* rows ever inserted into daily_tasks

(* SQL NULL / Python None for integer columns, and a key absent from the    *)
(* request's JSON object.                                                   *)
NULL == -1
ABSENT == -2

(* SQL NULL / Python None where the other values are strings *)
NULL_TEXT == "NULL"

Dates == 1..MaxDate

Statuses == {"pending", "in_progress", "completed", "abandoned"}
valid_loads == {"deep_work", "active_work", "admin", "learning"}

-----------------------------------------------------------------------------
(* Pure functions of src/app/models/database.py *)

(* load_multipliers.get(cognitive_load, 1.0), in tenths *)
load_multiplier10_default_active(cognitive_load) ==
    CASE cognitive_load = "deep_work" -> 20
      [] cognitive_load = "learning" -> 15
      [] cognitive_load = "active_work" -> 12
      [] cognitive_load = "admin" -> 10
      [] OTHER -> 12

load_multiplier10(cognitive_load) ==
    CASE cognitive_load = "deep_work" -> 20
      [] cognitive_load = "learning" -> 15
      [] cognitive_load = "active_work" -> 12
      [] cognitive_load = "admin" -> 10
      [] OTHER -> 10

(* int((base_points + time_bonus) * multiplier) *)
calculate_task_points_single_bonus(task) ==
    LET base_points == task.complexity * 10
        multiplier10 == load_multiplier10(task.cognitive_load)
        time_bonus == IF task.time_estimate >= 30 THEN 5 ELSE 0
    IN  ((base_points + time_bonus) * multiplier10) \div 10

(* int((base_points + time_bonus) * multiplier): the product of an integer  *)
(* and the float multiplier is exact on the modelled range, and int()       *)
(* truncates a non-negative value downwards.                                *)
calculate_task_points(task) ==
    LET base_points == task.complexity * 10
        multiplier10 == load_multiplier10(task.cognitive_load)
        time_bonus == (task.time_estimate \div 30) * 5
    IN  ((base_points + time_bonus) * multiplier10) \div 10

calculate_penalty(rolled_over_count) == rolled_over_count * 2

-----------------------------------------------------------------------------
(* validate_task_data of src/utils/helpers.py: the set of error messages *)

Get(value, default) == IF value = ABSENT THEN default ELSE value
GetLoad(value, default) == IF value = "ABSENT" THEN default ELSE value

validate_task_data(data) ==
    LET complexity == Get(data.complexity, 3)
        cognitive_load == GetLoad(data.cognitive_load, "active_work")
        time_estimate == Get(data.time_estimate, 30)
    IN  (IF data.title = "" THEN {"Title is required"} ELSE {})
        \cup (IF complexity < 1 \/ complexity > 5
              THEN {"Complexity must be between 1 and 5"} ELSE {})
        \cup (IF cognitive_load \notin valid_loads
              THEN {"Cognitive load must be one of"} ELSE {})
        \cup (IF time_estimate < 0
              THEN {"Time estimate must be a positive number"} ELSE {})

-----------------------------------------------------------------------------
(* Table access *)

(* SELECT ... FROM daily_tasks WHERE task_id = ? AND scheduled_date = ?,    *)
(* which is also the key of the table's UNIQUE(task_id, scheduled_date).    *)
RowsFor_by_row_id(dts, task_id, date_str) ==
    {r \in dts : r.id = task_id /\ r.scheduled_date = date_str}

RowsFor(dts, task_id, date_str) ==
    {r \in dts : r.task_id = task_id /\ r.scheduled_date = date_str}

(* The constraints of table daily_tasks that an INSERT or UPDATE can break *)
DailyConstraintsOK(dts, row) ==
    /\ row.status \in Statuses
    /\ RowsFor(dts, row.task_id, row.scheduled_date) \subseteq {r \in dts : r.id = row.id}

(* SELECT ... FROM daily_tasks WHERE id = ? *)
DailyById(dts, id) == {r \in dts : r.id = id}

TaskById(ts, id) == {t \in ts : t.id = id}

(* A row of daily_tasks as INSERT leaves it: the columns not named take    *)
(* their DEFAULT.                                                           *)
NewDailyRow(id, task_id, date_str, rolled_over_count, penalty_points) ==
    [id |-> id, task_id |-> task_id, scheduled_date |-> date_str,
     status |-> "pending", rolled_over_count |-> rolled_over_count,
     penalty_points |-> penalty_points, completed_at |-> NULL]

NewTaskRow(id, data, parent_id) ==
    [id |-> id,
     complexity |-> Get(data.complexity, 3),
     cognitive_load |-> GetLoad(data.cognitive_load, "active_work"),
     time_estimate |-> Get(data.time_estimate, 30),
     parent_id |-> parent_id,
     archived |-> FALSE]

-----------------------------------------------------------------------------
Init ==
    /\ tasks = {}
    /\ daily_tasks = {}
    /\ next_task_id = 1
    /\ next_daily_id = 1
    /\ achievements = {}
    /\ times_unlocked = <<>>
    /\ challenge_history = {}
    /\ today = 1
    /\ ret = [kind |-> "none", code |-> 0]

(* The response bodies {'success': True} and {'error': ...} / {'errors': ...} *)
Success(code) == [kind |-> "success", code |-> code]
Error(code) == [kind |-> "error", code |-> code]

MotivationUnchanged == UNCHANGED <<achievements, times_unlocked, challenge_history, today>>

-----------------------------------------------------------------------------
(* Handlers of src/blueprints/api.py *)

(* The mutation of create_task placed before its validation *)
create_task_validating_late(data) ==
    LET errors == validate_task_data(data)
    IN  /\ tasks' = tasks \cup
              {[id |-> next_task_id, complexity |-> Get(data.complexity, 3),
                cognitive_load |-> GetLoad(data.cognitive_load, "active_work"),
                time_estimate |-> Get(data.time_estimate, 30),
                parent_id |-> Get(data.parent_id, NULL), archived |-> FALSE]}
        /\ next_task_id' = next_task_id + 1
        /\ ret' = IF errors # {} THEN [kind |-> "error", code |-> 400]
                  ELSE [kind |-> "task", code |-> 201, id |-> next_task_id]
        /\ UNCHANGED <<daily_tasks, next_daily_id, achievements, times_unlocked,
                       challenge_history, today>>

(* POST /tasks.  parent_id is taken from the request as it is. *)
create_task(data) ==
    LET errors == validate_task_data(data)
    IN  /\ IF errors # {}
           THEN /\ ret' = Error(400)
                /\ UNCHANGED <<tasks, next_task_id>>
           ELSE /\ tasks' = tasks \cup
                      {NewTaskRow(next_task_id, data, Get(data.parent_id, NULL))}
                /\ next_task_id' = next_task_id + 1
                /\ ret' = [kind |-> "task", code |-> 201, id |-> next_task_id]
        /\ UNCHANGED <<daily_tasks, next_daily_id>>
        /\ MotivationUnchanged

(* POST /daily/<date_str>/quick-add *)
quick_add_task(date_str, data) ==
    LET errors == validate_task_data(data)
        task == NewTaskRow(next_task_id, data, NULL)
        row == NewDailyRow(next_daily_id, next_task_id, date_str, 0, 0)
    IN  /\ IF errors # {}
           THEN /\ ret' = Error(400)
                /\ UNCHANGED <<tasks, next_task_id, daily_tasks, next_daily_id>>
           ELSE IF DailyConstraintsOK(daily_tasks, row)
                   THEN /\ tasks' = tasks \cup {task}
                        /\ next_task_id' = next_task_id + 1
                        /\ daily_tasks' = daily_tasks \cup {row}
                        /\ next_daily_id' = next_daily_id + 1
                        /\ ret' = [kind |-> "daily_task", code |-> 201,
                                   id |-> next_daily_id,
                                   points |-> calculate_task_points(task)]
                   ELSE /\ ret' = Error(500)
                        /\ UNCHANGED <<tasks, next_task_id, daily_tasks, next_daily_id>>
        /\ MotivationUnchanged

(* POST /daily/<date_str>/add.  The task id is not looked up in tasks, and  *)
(* rolled_over_count and penalty_points come from the request (default 0). *)
add_task_to_day(date_str, data) ==
    LET row == NewDailyRow(next_daily_id, data.task_id, date_str,
                           Get(data.rolled_over_count, 0), Get(data.penalty_points, 0))
    IN  /\ IF RowsFor(daily_tasks, data.task_id, date_str) # {}
           THEN /\ ret' = Error(400)
                /\ UNCHANGED <<daily_tasks, next_daily_id>>
           ELSE IF DailyConstraintsOK(daily_tasks, row)
                   THEN /\ daily_tasks' = daily_tasks \cup {row}
                        /\ next_daily_id' = next_daily_id + 1
                        /\ ret' = Success(201)
                   ELSE /\ ret' = Error(500)
                        /\ UNCHANGED <<daily_tasks, next_daily_id>>
        /\ UNCHANGED <<tasks, next_task_id>>
        /\ MotivationUnchanged

(* update_task_status that leaves completed_at alone unless the row is      *)
(* completed                                                                *)
update_task_status_keeping_timestamp(daily_task_id, new_status, now_hour) ==
    LET old == DailyById(daily_tasks, daily_task_id)
        new == {[r EXCEPT !.status = new_status,
                          !.completed_at = IF new_status = "completed"
                                           THEN now_hour ELSE r.completed_at]
                  : r \in old}
    IN  /\ IF \A r \in new : DailyConstraintsOK(daily_tasks, r)
           THEN /\ daily_tasks' = (daily_tasks \ old) \cup new
                /\ ret' = Success(200)
           ELSE /\ ret' = Error(500)
                /\ UNCHANGED daily_tasks
        /\ UNCHANGED <<tasks, next_task_id, next_daily_id>>
        /\ MotivationUnchanged

(* PUT /daily/task/<id>/status.  An UPDATE that matches no row succeeds;    *)
(* one that breaks the CHECK on status raises and changes nothing.          *)
update_task_status(daily_task_id, new_status, now_hour) ==
    LET completed_at == IF new_status = "completed" THEN now_hour ELSE NULL
        old == DailyById(daily_tasks, daily_task_id)
        new == {[r EXCEPT !.status = new_status, !.completed_at = completed_at] : r \in old}
    IN  /\ IF \A r \in new : DailyConstraintsOK(daily_tasks, r)
           THEN /\ daily_tasks' = (daily_tasks \ old) \cup new
                /\ ret' = Success(200)
           ELSE /\ ret' = Error(500)
                /\ UNCHANGED daily_tasks
        /\ UNCHANGED <<tasks, next_task_id, next_daily_id>>
        /\ MotivationUnchanged

(* DELETE /daily/task/<id>: the subtasks of the row's task become main      *)
(* tasks, then the row is deleted.                                          *)
remove_daily_task(daily_task_id) ==
    LET daily_task == DailyById(daily_tasks, daily_task_id)
        task_ids == {r.task_id : r \in daily_task}
    IN  /\ tasks' = {IF t.parent_id \in task_ids THEN [t EXCEPT !.parent_id = NULL] ELSE t
                       : t \in tasks}
        /\ daily_tasks' = daily_tasks \ daily_task
        /\ ret' = Success(200)
        /\ UNCHANGED <<next_task_id, next_daily_id>>
        /\ MotivationUnchanged

(* The loop of process_rollover over the fetched rows, in the order the    *)
(* query returned them.  An INSERT is preceded by the handler's own lookup  *)
(* of (task_id, to_date), so it cannot break the UNIQUE constraint.         *)
RECURSIVE rollover_loop_keeps_status(_, _, _, _, _)
rollover_loop_keeps_status(incomplete_tasks, to_date, dts, next_id, rolled_over) ==
    IF incomplete_tasks = <<>>
    THEN [daily_tasks |-> dts, next_daily_id |-> next_id, rolled_over |-> rolled_over]
    ELSE LET task == Head(incomplete_tasks)
             new_rolled_count == task.rolled_over_count + 1
             new_penalty == calculate_penalty(new_rolled_count)
             exists == RowsFor(dts, task.task_id, to_date) # {}
             inserted == IF exists THEN dts
                         ELSE dts \cup {NewDailyRow(next_id, task.task_id, to_date,
                                                    new_rolled_count, new_penalty)}
         IN  rollover_loop_keeps_status(Tail(incomplete_tasks), to_date, inserted,
                           IF exists THEN next_id ELSE next_id + 1,
                           IF exists THEN rolled_over
                           ELSE Append(rolled_over,
                                       [id |-> next_id, task_id |-> task.task_id,
                                        rolled_over_count |-> new_rolled_count,
                                        penalty_points |-> new_penalty]))

(* The loop without the look-up on the target date and without the UPDATE *)
RECURSIVE rollover_loop_repeating(_, _, _, _, _)
rollover_loop_repeating(incomplete_tasks, to_date, dts, next_id, rolled_over) ==
    IF incomplete_tasks = <<>>
    THEN [daily_tasks |-> dts, next_daily_id |-> next_id, rolled_over |-> rolled_over]
    ELSE LET task == Head(incomplete_tasks)
             new_rolled_count == task.rolled_over_count + 1
             new_penalty == calculate_penalty(new_rolled_count)
             inserted == dts \cup {NewDailyRow(next_id, task.task_id, to_date,
                                               new_rolled_count, new_penalty)}
         IN  rollover_loop_repeating(Tail(incomplete_tasks), to_date, inserted,
                           next_id + 1,
                           Append(rolled_over,
                                  [id |-> next_id, task_id |-> task.task_id,
                                   rolled_over_count |-> new_rolled_count,
                                   penalty_points |-> new_penalty]))

RECURSIVE rollover_loop(_, _, _, _, _)
rollover_loop(incomplete_tasks, to_date, dts, next_id, rolled_over) ==
    IF incomplete_tasks = <<>>
    THEN [daily_tasks |-> dts, next_daily_id |-> next_id, rolled_over |-> rolled_over]
    ELSE LET task == Head(incomplete_tasks)
             new_rolled_count == task.rolled_over_count + 1
             new_penalty == calculate_penalty(new_rolled_count)
             exists == RowsFor(dts, task.task_id, to_date) # {}
             inserted == IF exists THEN dts
                         ELSE dts \cup {NewDailyRow(next_id, task.task_id, to_date,
                                                    new_rolled_count, new_penalty)}
             abandoned == {IF r.id = task.id THEN [r EXCEPT !.status = "abandoned"] ELSE r
                             : r \in inserted}
         IN  rollover_loop(Tail(incomplete_tasks), to_date, abandoned,
                           IF exists THEN next_id ELSE next_id + 1,
                           IF exists THEN rolled_over
                           ELSE Append(rolled_over,
                                       [id |-> next_id, task_id |-> task.task_id,
                                        rolled_over_count |-> new_rolled_count,
                                        penalty_points |-> new_penalty]))

(* The orders in which a query may return a set of rows *)
Orders(S) ==
    {s \in [1..Cardinality(S) -> S] : \A i, j \in 1..Cardinality(S) : i # j => s[i] # s[j]}

(* The rows process_rollover fetches: they are read through a JOIN with     *)
(* tasks, so a row whose task does not exist is not fetched.                *)
incomplete_of(dts, ts, from_date) ==
    {r \in dts :
        /\ r.scheduled_date = from_date
        /\ r.status \in {"pending", "in_progress"}
        /\ TaskById(ts, r.task_id) # {}}

(* What process_rollover can leave behind and return, one outcome for each  *)
(* order of the fetched rows                                                *)
rollover_outcomes(dts, ts, next_id, from_date, to_date) ==
    {rollover_loop(incomplete_tasks, to_date, dts, next_id, <<>>)
        : incomplete_tasks \in Orders(incomplete_of(dts, ts, from_date))}

(* process_rollover that fetches every row of from_date, whatever its status *)
process_rollover_sweeping(from_date, to_date) ==
    \E incomplete_tasks \in Orders({r \in daily_tasks : r.scheduled_date = from_date}) :
        LET done == rollover_loop(incomplete_tasks, to_date, daily_tasks,
                                  next_daily_id, <<>>)
        IN  /\ daily_tasks' = done.daily_tasks
            /\ next_daily_id' = done.next_daily_id
            /\ ret' = [kind |-> "rollover", code |-> 200,
                       rolled_over_count |-> Len(done.rolled_over),
                       tasks |-> done.rolled_over]
            /\ UNCHANGED <<tasks, next_task_id>>
            /\ MotivationUnchanged

(* POST /rollover *)
process_rollover(from_date, to_date) ==
    \E done \in rollover_outcomes(daily_tasks, tasks, next_daily_id, from_date, to_date) :
        /\ daily_tasks' = done.daily_tasks
        /\ next_daily_id' = done.next_daily_id
        /\ ret' = [kind |-> "rollover", code |-> 200,
                   rolled_over_count |-> Len(done.rolled_over),
                   tasks |-> done.rolled_over]
        /\ UNCHANGED <<tasks, next_task_id>>
        /\ MotivationUnchanged

(* PUT /daily/task/<id>/set-parent *)
set_task_parent(daily_task_id, parent_daily_task_id) ==
    LET daily_task == DailyById(daily_tasks, daily_task_id)
        task_id == (CHOOSE r \in daily_task : TRUE).task_id
        parent_daily_task == DailyById(daily_tasks, parent_daily_task_id)
        parent_task_id == (CHOOSE r \in parent_daily_task : TRUE).task_id
        parent_task == TaskById(tasks, parent_task_id)
        subtask_count == Cardinality({t \in tasks : t.parent_id = task_id})
        SetParent(p) == {IF t.id = task_id THEN [t EXCEPT !.parent_id = p] ELSE t : t \in tasks}
        Reply(code) == IF code = 200 THEN Success(200) ELSE Error(code)
    IN  /\ IF daily_task = {}
           THEN ret' = Reply(404) /\ UNCHANGED tasks
           ELSE IF parent_daily_task_id = NULL
           THEN ret' = Reply(200) /\ tasks' = SetParent(NULL)
           ELSE IF parent_daily_task = {}
           THEN ret' = Reply(404) /\ UNCHANGED tasks
           ELSE IF parent_task_id = task_id
           THEN ret' = Reply(400) /\ UNCHANGED tasks
           ELSE IF \E t \in parent_task : t.parent_id # NULL
           THEN ret' = Reply(400) /\ UNCHANGED tasks
           ELSE IF subtask_count > 0
           THEN ret' = Reply(400) /\ UNCHANGED tasks
           ELSE ret' = Reply(200) /\ tasks' = SetParent(parent_task_id)
        /\ UNCHANGED <<daily_tasks, next_task_id, next_daily_id>>
        /\ MotivationUnchanged

(* GET /daily/<date_str>: the day's rows joined with their tasks, each with *)
(* its points.                                                              *)
get_daily_tasks(date_str) ==
    /\ ret' = [kind |-> "daily_tasks", code |-> 200,
               tasks |-> {[id |-> r.id, task_id |-> t.id, status |-> r.status,
                           points |-> calculate_task_points(t),
                           net_points |-> IF r.status = "completed"
                                          THEN calculate_task_points(t) - r.penalty_points
                                          ELSE 0 - r.penalty_points,
                           is_subtask |-> t.parent_id # NULL]
                          : <<r, t>> \in {x \in daily_tasks \X tasks :
                                            /\ x[1].task_id = x[2].id
                                            /\ x[1].scheduled_date = date_str}}]
    /\ UNCHANGED <<tasks, daily_tasks, next_task_id, next_daily_id>>
    /\ MotivationUnchanged

-----------------------------------------------------------------------------
(* DailyChallengeEngine of src/services/motivation/challenges.py *)

(* DIFFICULTY: the bonus range of each difficulty *)
DIFFICULTY(difficulty) ==
    CASE difficulty = "easy" -> [min_bonus |-> 25, max_bonus |-> 40]
      [] difficulty = "medium" -> [min_bonus |-> 45, max_bonus |-> 70]
      [] difficulty = "hard" -> [min_bonus |-> 75, max_bonus |-> 100]
      [] difficulty = "epic" -> [min_bonus |-> 110, max_bonus |-> 150]

(* CHALLENGES in the order of the dict, with the fields the engine reads.   *)
(* A key the requirement does not have is ABSENT.                           *)
CHALLENGES == <<
    [id |-> "deep_work_1h", category |-> "cognitive", difficulty |-> "easy",
     tags |-> {"focus", "deep_work"},
     requirement |-> [type |-> "cognitive_time", load |-> "deep_work", count |-> ABSENT, minutes |-> 60,
                      points |-> ABSENT, complexity |-> ABSENT]],
    [id |-> "deep_work_2h", category |-> "cognitive", difficulty |-> "medium",
     tags |-> {"focus", "deep_work"},
     requirement |-> [type |-> "cognitive_time", load |-> "deep_work", count |-> ABSENT, minutes |-> 120,
                      points |-> ABSENT, complexity |-> ABSENT]],
    [id |-> "deep_work_3_tasks", category |-> "cognitive", difficulty |-> "hard",
     tags |-> {"focus", "deep_work"},
     requirement |-> [type |-> "cognitive_count", load |-> "deep_work", count |-> 3, minutes |-> ABSENT,
                      points |-> ABSENT, complexity |-> ABSENT]],
    [id |-> "admin_blitz", category |-> "cognitive", difficulty |-> "medium",
     tags |-> {"admin", "cleanup"},
     requirement |-> [type |-> "clear_category", load |-> "admin", count |-> ABSENT, minutes |-> ABSENT,
                      points |-> ABSENT, complexity |-> ABSENT]],
    [id |-> "learning_hour", category |-> "cognitive", difficulty |-> "easy",
     tags |-> {"learning", "growth"},
     requirement |-> [type |-> "cognitive_time", load |-> "learning", count |-> ABSENT, minutes |-> 60,
                      points |-> ABSENT, complexity |-> ABSENT]],
    [id |-> "active_work_5", category |-> "cognitive", difficulty |-> "medium",
     tags |-> {"active_work", "productivity"},
     requirement |-> [type |-> "cognitive_count", load |-> "active_work", count |-> 5, minutes |-> ABSENT,
                      points |-> ABSENT, complexity |-> ABSENT]],
    [id |-> "balance_master", category |-> "cognitive", difficulty |-> "hard",
     tags |-> {"balance", "variety"},
     requirement |-> [type |-> "all_categories", load |-> "ABSENT", count |-> ABSENT, minutes |-> ABSENT,
                      points |-> ABSENT, complexity |-> ABSENT]],
    [id |-> "cognitive_diversity", category |-> "cognitive", difficulty |-> "medium",
     tags |-> {"balance", "variety"},
     requirement |-> [type |-> "category_count", load |-> "ABSENT", count |-> 3, minutes |-> ABSENT,
                      points |-> ABSENT, complexity |-> ABSENT]],
    [id |-> "three_tasks", category |-> "quantity", difficulty |-> "easy",
     tags |-> {"quantity", "beginner"},
     requirement |-> [type |-> "task_count", load |-> "ABSENT", count |-> 3, minutes |-> ABSENT,
                      points |-> ABSENT, complexity |-> ABSENT]],
    [id |-> "five_tasks", category |-> "quantity", difficulty |-> "medium",
     tags |-> {"quantity", "productive"},
     requirement |-> [type |-> "task_count", load |-> "ABSENT", count |-> 5, minutes |-> ABSENT,
                      points |-> ABSENT, complexity |-> ABSENT]],
    [id |-> "seven_tasks", category |-> "quantity", difficulty |-> "hard",
     tags |-> {"quantity", "ambitious"},
     requirement |-> [type |-> "task_count", load |-> "ABSENT", count |-> 7, minutes |-> ABSENT,
                      points |-> ABSENT, complexity |-> ABSENT]],
    [id |-> "ten_tasks", category |-> "quantity", difficulty |-> "epic",
     tags |-> {"quantity", "epic"},
     requirement |-> [type |-> "task_count", load |-> "ABSENT", count |-> 10, minutes |-> ABSENT,
                      points |-> ABSENT, complexity |-> ABSENT]],
    [id |-> "first_task_quick", category |-> "quantity", difficulty |-> "easy",
     tags |-> {"speed", "momentum"},
     requirement |-> [type |-> "first_task_quick", load |-> "ABSENT", count |-> ABSENT, minutes |-> 30,
                      points |-> ABSENT, complexity |-> ABSENT]],
    [id |-> "double_yesterday", category |-> "quantity", difficulty |-> "medium",
     tags |-> {"improvement", "growth"},
     requirement |-> [type |-> "beat_yesterday", load |-> "ABSENT", count |-> ABSENT, minutes |-> ABSENT,
                      points |-> ABSENT, complexity |-> ABSENT]],
    [id |-> "task_sprint", category |-> "quantity", difficulty |-> "hard",
     tags |-> {"speed", "focus"},
     requirement |-> [type |-> "sprint", load |-> "ABSENT", count |-> ABSENT, minutes |-> ABSENT,
                      points |-> ABSENT, complexity |-> ABSENT]],
    [id |-> "minimum_viable", category |-> "quantity", difficulty |-> "easy",
     tags |-> {"easy", "recovery"},
     requirement |-> [type |-> "task_count", load |-> "ABSENT", count |-> 1, minutes |-> ABSENT,
                      points |-> ABSENT, complexity |-> ABSENT]],
    [id |-> "earn_50_points", category |-> "points", difficulty |-> "easy",
     tags |-> {"points", "beginner"},
     requirement |-> [type |-> "daily_points", load |-> "ABSENT", count |-> ABSENT, minutes |-> ABSENT,
                      points |-> 50, complexity |-> ABSENT]],
    [id |-> "earn_100_points", category |-> "points", difficulty |-> "medium",
     tags |-> {"points", "ambitious"},
     requirement |-> [type |-> "daily_points", load |-> "ABSENT", count |-> ABSENT, minutes |-> ABSENT,
                      points |-> 100, complexity |-> ABSENT]],
    [id |-> "earn_150_points", category |-> "points", difficulty |-> "hard",
     tags |-> {"points", "hard"},
     requirement |-> [type |-> "daily_points", load |-> "ABSENT", count |-> ABSENT, minutes |-> ABSENT,
                      points |-> 150, complexity |-> ABSENT]],
    [id |-> "earn_200_points", category |-> "points", difficulty |-> "epic",
     tags |-> {"points", "epic"},
     requirement |-> [type |-> "daily_points", load |-> "ABSENT", count |-> ABSENT, minutes |-> ABSENT,
                      points |-> 200, complexity |-> ABSENT]],
    [id |-> "no_penalties", category |-> "points", difficulty |-> "medium",
     tags |-> {"quality", "focus"},
     requirement |-> [type |-> "zero_penalties", load |-> "ABSENT", count |-> ABSENT, minutes |-> ABSENT,
                      points |-> ABSENT, complexity |-> ABSENT]],
    [id |-> "positive_net", category |-> "points", difficulty |-> "easy",
     tags |-> {"points", "balance"},
     requirement |-> [type |-> "positive_net", load |-> "ABSENT", count |-> ABSENT, minutes |-> ABSENT,
                      points |-> ABSENT, complexity |-> ABSENT]],
    [id |-> "early_bird", category |-> "time", difficulty |-> "medium",
     tags |-> {"morning", "early"},
     requirement |-> [type |-> "complete_before_hour", load |-> "ABSENT", count |-> ABSENT, minutes |-> ABSENT,
                      points |-> ABSENT, complexity |-> ABSENT]],
    [id |-> "super_early_bird", category |-> "time", difficulty |-> "hard",
     tags |-> {"morning", "extreme"},
     requirement |-> [type |-> "complete_before_hour", load |-> "ABSENT", count |-> ABSENT, minutes |-> ABSENT,
                      points |-> ABSENT, complexity |-> ABSENT]],
    [id |-> "finish_by_noon", category |-> "time", difficulty |-> "medium",
     tags |-> {"morning", "productive"},
     requirement |-> [type |-> "tasks_before_hour", load |-> "ABSENT", count |-> 3, minutes |-> ABSENT,
                      points |-> ABSENT, complexity |-> ABSENT]],
    [id |-> "finish_by_5pm", category |-> "time", difficulty |-> "hard",
     tags |-> {"balance", "efficiency"},
     requirement |-> [type |-> "all_before_hour", load |-> "ABSENT", count |-> ABSENT, minutes |-> ABSENT,
                      points |-> ABSENT, complexity |-> ABSENT]],
    [id |-> "night_owl", category |-> "time", difficulty |-> "easy",
     tags |-> {"evening", "night"},
     requirement |-> [type |-> "complete_after_hour", load |-> "ABSENT", count |-> ABSENT, minutes |-> ABSENT,
                      points |-> ABSENT, complexity |-> ABSENT]],
    [id |-> "time_boxer", category |-> "time", difficulty |-> "medium",
     tags |-> {"efficiency", "planning"},
     requirement |-> [type |-> "within_estimate", load |-> "ABSENT", count |-> ABSENT, minutes |-> ABSENT,
                      points |-> ABSENT, complexity |-> ABSENT]],
    [id |-> "speed_demon", category |-> "time", difficulty |-> "hard",
     tags |-> {"speed", "efficiency"},
     requirement |-> [type |-> "beat_estimate", load |-> "ABSENT", count |-> ABSENT, minutes |-> ABSENT,
                      points |-> ABSENT, complexity |-> ABSENT]],
    [id |-> "keep_streak", category |-> "streak", difficulty |-> "easy",
     tags |-> {"streak", "consistency"},
     requirement |-> [type |-> "maintain_streak", load |-> "ABSENT", count |-> ABSENT, minutes |-> ABSENT,
                      points |-> ABSENT, complexity |-> ABSENT]],
    [id |-> "streak_builder", category |-> "streak", difficulty |-> "medium",
     tags |-> {"streak", "growth"},
     requirement |-> [type |-> "extend_streak", load |-> "ABSENT", count |-> ABSENT, minutes |-> ABSENT,
                      points |-> ABSENT, complexity |-> ABSENT]],
    [id |-> "weekend_warrior", category |-> "streak", difficulty |-> "medium",
     tags |-> {"weekend", "dedication"},
     requirement |-> [type |-> "weekend_tasks", load |-> "ABSENT", count |-> 3, minutes |-> ABSENT,
                      points |-> ABSENT, complexity |-> ABSENT]],
    [id |-> "monday_momentum", category |-> "streak", difficulty |-> "medium",
     tags |-> {"monday", "start"},
     requirement |-> [type |-> "monday_tasks", load |-> "ABSENT", count |-> 4, minutes |-> ABSENT,
                      points |-> ABSENT, complexity |-> ABSENT]],
    [id |-> "friday_finish", category |-> "streak", difficulty |-> "hard",
     tags |-> {"friday", "completion"},
     requirement |-> [type |-> "friday_clear", load |-> "ABSENT", count |-> ABSENT, minutes |-> ABSENT,
                      points |-> ABSENT, complexity |-> ABSENT]],
    [id |-> "complexity_5", category |-> "complexity", difficulty |-> "hard",
     tags |-> {"hard", "challenge"},
     requirement |-> [type |-> "complexity_task", load |-> "ABSENT", count |-> ABSENT, minutes |-> ABSENT,
                      points |-> ABSENT, complexity |-> 5]],
    [id |-> "complexity_average_4", category |-> "complexity", difficulty |-> "epic",
     tags |-> {"hard", "ambitious"},
     requirement |-> [type |-> "high_complexity_count", load |-> "ABSENT", count |-> 3, minutes |-> ABSENT,
                      points |-> ABSENT, complexity |-> ABSENT]],
    [id |-> "easy_wins", category |-> "complexity", difficulty |-> "easy",
     tags |-> {"easy", "momentum"},
     requirement |-> [type |-> "low_complexity_count", load |-> "ABSENT", count |-> 5, minutes |-> ABSENT,
                      points |-> ABSENT, complexity |-> ABSENT]],
    [id |-> "complexity_variety", category |-> "complexity", difficulty |-> "medium",
     tags |-> {"variety", "balance"},
     requirement |-> [type |-> "complexity_variety", load |-> "ABSENT", count |-> 3, minutes |-> ABSENT,
                      points |-> ABSENT, complexity |-> ABSENT]],
    [id |-> "no_easy_mode", category |-> "complexity", difficulty |-> "hard",
     tags |-> {"hard", "focus"},
     requirement |-> [type |-> "min_complexity_day", load |-> "ABSENT", count |-> ABSENT, minutes |-> ABSENT,
                      points |-> ABSENT, complexity |-> ABSENT]],
    [id |-> "perfect_day", category |-> "special", difficulty |-> "hard",
     tags |-> {"perfect", "completion"},
     requirement |-> [type |-> "perfect_completion", load |-> "ABSENT", count |-> ABSENT, minutes |-> ABSENT,
                      points |-> ABSENT, complexity |-> ABSENT]],
    [id |-> "comeback_kid", category |-> "special", difficulty |-> "medium",
     tags |-> {"comeback", "persistence"},
     requirement |-> [type |-> "clear_rollover", load |-> "ABSENT", count |-> ABSENT, minutes |-> ABSENT,
                      points |-> ABSENT, complexity |-> ABSENT]],
    [id |-> "rollover_slayer", category |-> "special", difficulty |-> "hard",
     tags |-> {"comeback", "cleanup"},
     requirement |-> [type |-> "clear_all_rollovers", load |-> "ABSENT", count |-> ABSENT, minutes |-> ABSENT,
                      points |-> ABSENT, complexity |-> ABSENT]],
    [id |-> "fresh_start", category |-> "special", difficulty |-> "easy",
     tags |-> {"recovery", "restart"},
     requirement |-> [type |-> "break_recovery", load |-> "ABSENT", count |-> ABSENT, minutes |-> ABSENT,
                      points |-> ABSENT, complexity |-> ABSENT]],
    [id |-> "overachiever", category |-> "special", difficulty |-> "medium",
     tags |-> {"growth", "improvement"},
     requirement |-> [type |-> "beat_average", load |-> "ABSENT", count |-> ABSENT, minutes |-> ABSENT,
                      points |-> ABSENT, complexity |-> ABSENT]],
    [id |-> "zen_master", category |-> "special", difficulty |-> "medium",
     tags |-> {"clean", "focus"},
     requirement |-> [type |-> "no_rollovers", load |-> "ABSENT", count |-> ABSENT, minutes |-> ABSENT,
                      points |-> ABSENT, complexity |-> ABSENT]]
>>

ChallengeIndex == 1..Len(CHALLENGES)

(* CHALLENGES.get(challenge_id) *)
ChallengeById(challenge_id) ==
    CHOOSE c \in {CHALLENGES[i] : i \in ChallengeIndex} : c.id = challenge_id

(* date.weekday(): 0 is Monday; day 1 of the calendar is a Monday *)
weekday(d) == (d + 6) % 7

(* round(completed / total * 100, 1) in tenths of a percent.  The engine   *)
(* only compares a rate with 50, 70 and 85, and no quotient of the modelled *)
(* counts lies within a rounding step of those.                             *)
rate10(completed, total) ==
    IF total > 0 THEN (completed * 2000 + total) \div (2 * total) ELSE 0

(* while check_date.isoformat() in completed_dates: streak += 1 *)
RECURSIVE streak_before(_, _)
streak_before(completed_dates, check_date) ==
    IF check_date \in completed_dates
    THEN 1 + streak_before(completed_dates, check_date - 1)
    ELSE 0

(* The rows of daily_tasks JOIN tasks ON task_id = id *)
Joined(dts, ts) == {x \in dts \X ts : x[1].task_id = x[2].id}

get_user_context(date_str) ==
    LET week_ago == date_str - 7
        completed_dates == {r.scheduled_date : r \in {x \in daily_tasks : x.status = "completed"}}
        streak == streak_before(completed_dates, date_str - 1)
        daily_stats == {r \in daily_tasks :
                           r.scheduled_date >= date_str - 14 /\ r.scheduled_date <= date_str - 1}
        total_completed == Cardinality({r \in daily_stats : r.status = "completed"})
        window == {x \in Joined(daily_tasks, tasks) :
                      x[1].scheduled_date >= week_ago /\ x[1].scheduled_date <= date_str - 1}
        rollover_count == Cardinality({r \in daily_tasks :
                                          r.scheduled_date = date_str /\ r.rolled_over_count > 0})
        recent == {h \in challenge_history : h.challenge_date >= week_ago}
        total_completed_ever == Cardinality({r \in daily_tasks : r.status = "completed"})
    IN  [is_weekend |-> weekday(date_str) >= 5,
         is_monday |-> weekday(date_str) = 0,
         is_friday |-> weekday(date_str) = 4,
         current_streak |-> IF completed_dates # {} THEN streak ELSE 0,
         has_streak |-> completed_dates # {} /\ streak > 0,
         missed_yesterday |-> completed_dates # {} /\ (date_str - 1) \notin completed_dates,
         avg_completion_rate |-> rate10(total_completed, Cardinality(daily_stats)),
         cognitive_performance |->
             [load \in {x[2].cognitive_load : x \in window} |->
                 rate10(Cardinality({x \in window : x[2].cognitive_load = load
                                                    /\ x[1].status = "completed"}),
                        Cardinality({x \in window : x[2].cognitive_load = load}))],
         has_rollovers |-> rollover_count > 0,
         \* recent_challenges[:5], the rows ordered by challenge_date DESC
         recent_challenges |->
             {h.challenge_id : h \in {x \in recent :
                 Cardinality({y \in recent : y.challenge_date > x.challenge_date}) < 5}},
         total_completed_ever |-> total_completed_ever,
         user_level |-> IF total_completed_ever < 10 THEN 1
                        ELSE IF total_completed_ever < 50 THEN 2
                        ELSE IF total_completed_ever < 150 THEN 3
                        ELSE 4]

difficulty_scores(user_level, difficulty) ==
    CASE user_level = 1 ->
           (CASE difficulty = "easy" -> 30 [] difficulty = "medium" -> 10
              [] difficulty = "hard" -> 0 - 20 [] difficulty = "epic" -> 0 - 50)
      [] user_level = 2 ->
           (CASE difficulty = "easy" -> 20 [] difficulty = "medium" -> 25
              [] difficulty = "hard" -> 5 [] difficulty = "epic" -> 0 - 20)
      [] user_level = 3 ->
           (CASE difficulty = "easy" -> 5 [] difficulty = "medium" -> 20
              [] difficulty = "hard" -> 25 [] difficulty = "epic" -> 10)
      [] user_level = 4 ->
           (CASE difficulty = "easy" -> 0 - 10 [] difficulty = "medium" -> 15
              [] difficulty = "hard" -> 30 [] difficulty = "epic" -> 25)

(* The relevance score is a sum of independent adjustments of 50 *)
_calculate_challenge_score(challenge, context) ==
    LET difficulty == challenge.difficulty
        category == challenge.category
        tags == challenge.tags
        target_load == challenge.requirement.load
        If(cond, points) == IF cond THEN points ELSE 0
        score ==
            50
            + difficulty_scores(context.user_level, difficulty)
            + If(context.is_weekend /\ "weekend" \in tags, 40)
            + If(context.is_monday /\ "monday" \in tags, 40)
            + If(context.is_friday /\ "friday" \in tags, 40)
            - If(~context.is_weekend /\ "weekend" \in tags, 50)
            + If(context.has_streak /\ category = "streak", 25)
            + If(context.current_streak >= 3 /\ challenge.id = "keep_streak", 30)
            + If(context.missed_yesterday /\ ("recovery" \in tags \/ "easy" \in tags), 35)
            - If(context.missed_yesterday /\ "streak" \in tags, 20)
            + If(context.has_rollovers /\ "comeback" \in tags, 40)
            + (IF category = "cognitive"
                  /\ target_load \in DOMAIN context.cognitive_performance
               THEN IF context.cognitive_performance[target_load] < 500 THEN 30
                    ELSE IF context.cognitive_performance[target_load] < 700 THEN 15
                    ELSE 0
               ELSE 0)
            + (IF context.avg_completion_rate < 500
               THEN IF difficulty = "easy" THEN 25
                    ELSE IF difficulty = "epic" THEN 0 - 30 ELSE 0
               ELSE IF context.avg_completion_rate > 850
                    THEN If(difficulty \in {"hard", "epic"}, 20)
                    ELSE 0)
            + If(context.total_completed_ever < 5 /\ "beginner" \in tags, 40)
    IN  IF score > 0 THEN score ELSE 0

(* The value of a singleton set: binds a value that is computed once *)
Only(S) == CHOOSE x \in S : TRUE

(* select_challenge without the test on recent_challenges *)
eligible_any(context) ==
    LET all == {[index |-> i,
                 score |-> _calculate_challenge_score(CHALLENGES[i], context)]
                   : i \in ChallengeIndex}
        scored == {e \in all : e.score > 0}
    IN  IF scored = {}
        THEN {[index |-> i, score |-> 50] : i \in ChallengeIndex}
        ELSE scored

(* select_challenge: the (index in CHALLENGES, score) pairs of the eligible *)
(* challenges; every challenge with score 50 when none is eligible.         *)
eligible(context) ==
    LET all == {[index |-> i,
                 score |-> _calculate_challenge_score(CHALLENGES[i], context)]
                   : i \in ChallengeIndex}
        scored == {e \in all :
                      /\ CHALLENGES[e.index].id \notin context.recent_challenges
                      /\ e.score > 0}
    IN  IF scored = {}
        THEN {[index |-> i, score |-> 50] : i \in ChallengeIndex}
        ELSE scored

(* eligible.sort(key = score, reverse = True)[:5], as a sequence of indices *)
(* into CHALLENGES.  list.sort is stable, so equal scores keep the order of *)
(* the dict.                                                                *)
sorted_top5(scored) ==
    LET before(e) == {o \in scored : o.score > e.score
                                     \/ (o.score = e.score /\ o.index < e.index)}
        top == {e \in scored : Cardinality(before(e)) < 5}
    IN  [k \in 1..Cardinality(top) |->
            (CHOOSE e \in top : Cardinality(before(e)) = k - 1).index]

(* select_challenge up to the random draw: top_candidates *)
top_candidates(date_str) ==
    Only({sorted_top5(e) : e \in {eligible(c) : c \in {get_user_context(date_str)}}})

(* SELECT ... FROM challenge_history WHERE challenge_date = ? *)
ChallengeOn(history, date_str) == {h \in history : h.challenge_date = date_str}

(* get_daily_challenge.  pick is the candidate that random.uniform lands    *)
(* on (every candidate has a positive score, so each can be drawn) and      *)
(* rand_offset is the value of random.randint(0, bonus_range).  The bonus   *)
(* of the stored row is the bonus_points of its challenge_data.             *)
get_daily_challenge(date_str, pick, rand_offset) ==
    LET existing == ChallengeOn(challenge_history, date_str)
    IN  /\ IF existing # {}
           THEN \E row \in existing :
                  LET stored == DIFFICULTY(ChallengeById(row.challenge_id).difficulty)
                  IN  /\ ret' = [kind |-> "challenge", code |-> 200, date |-> date_str,
                                 existing |-> TRUE, id |-> row.challenge_id,
                                 bonus_points |->
                                     (stored.min_bonus + stored.max_bonus) \div 2,
                                 completed |-> row.completed]
                      /\ UNCHANGED challenge_history
           ELSE \E candidates \in {top_candidates(date_str)} :
                  /\ pick \in DOMAIN candidates
                  /\ \E challenge \in {CHALLENGES[candidates[pick]]} :
                        LET difficulty == DIFFICULTY(challenge.difficulty)
                            bonus_range == difficulty.max_bonus - difficulty.min_bonus
                            bonus == difficulty.min_bonus + rand_offset
                        IN  /\ rand_offset \in 0..bonus_range
                            /\ challenge_history' =
                                   (challenge_history \ existing)
                                   \cup {[challenge_date |-> date_str,
                                          challenge_id |-> challenge.id,
                                          bonus_points |-> bonus, completed |-> FALSE]}
                            /\ ret' = [kind |-> "challenge", code |-> 200,
                                       date |-> date_str, existing |-> FALSE,
                                       id |-> challenge.id,
                                       bonus_points |-> bonus, completed |-> FALSE]
        /\ UNCHANGED <<tasks, daily_tasks, next_task_id, next_daily_id,
                       achievements, times_unlocked, today>>

(* SUM(t.time_estimate) and SUM(t.complexity * 10) over joined rows *)
RECURSIVE total_time(_)
total_time(rows) ==
    IF rows = {} THEN 0
    ELSE LET x == CHOOSE x \in rows : TRUE
         IN  x[2].time_estimate + total_time(rows \ {x})

RECURSIVE total_points(_)
total_points(rows) ==
    IF rows = {} THEN 0
    ELSE LET x == CHOOSE x \in rows : TRUE
         IN  x[2].complexity * 10 + total_points(rows \ {x})

RECURSIVE total_penalties(_)
total_penalties(rows) ==
    IF rows = {} THEN 0
    ELSE LET r == CHOOSE r \in rows : TRUE
         IN  r.penalty_points + total_penalties(rows \ {r})

(* The requirement test of check_challenge_completion; a type that has no   *)
(* branch leaves completed False.                                           *)
requirement_met_in(requirement, date_str, dts, ts) ==
    LET req_type == requirement.type
        day == {r \in dts : r.scheduled_date = date_str}
        done == {r \in day : r.status = "completed"}
        joined == Joined(day, ts)
        joined_done == Joined(done, ts)
        with_load == {x \in joined_done : x[2].cognitive_load = requirement.load}
        cat_count == Cardinality({x[2].cognitive_load : x \in joined_done})
    IN  CASE req_type = "task_count" -> Cardinality(done) >= Get(requirement.count, 1)
          [] req_type = "cognitive_count" ->
                 Cardinality(with_load) >= Get(requirement.count, 1)
          [] req_type = "cognitive_time" ->
                 total_time(with_load) >= Get(requirement.minutes, 60)
          [] req_type = "daily_points" ->
                 total_points(joined_done) >= Get(requirement.points, 50)
          [] req_type = "perfect_completion" ->
                 Cardinality(day) > 0 /\ Cardinality(day) = Cardinality(done)
          [] req_type = "clear_rollover" ->
                 Cardinality({r \in done : r.rolled_over_count > 0}) > 0
          [] req_type = "all_categories" -> cat_count >= 4
          [] req_type = "category_count" -> cat_count >= Get(requirement.count, 3)
          [] req_type = "maintain_streak" -> Cardinality(done) >= 1
          [] req_type = "complexity_task" ->
                 Cardinality({x \in joined_done :
                                 x[2].complexity >= Get(requirement.complexity, 5)}) > 0
          [] req_type = "zero_penalties" ->
                 /\ Cardinality(day) > 0
                 /\ Cardinality(day) = Cardinality(done)
                 /\ total_penalties(day) = 0
          [] req_type = "positive_net" ->
                 total_points(joined_done) - total_penalties({x[1] : x \in joined}) > 0
          [] OTHER -> FALSE

(* The test on the stored rows *)
requirement_met(requirement, date_str) ==
    requirement_met_in(requirement, date_str, daily_tasks, tasks)

(* check_challenge_completion: the only writer of completed, and it only    *)
(* writes 1.                                                                *)
check_challenge_completion_overwriting(date_str) ==
    LET result == ChallengeOn(challenge_history, date_str)
    IN  /\ IF result = {}
           THEN /\ ret' = [kind |-> "completion", code |-> 200,
                           completed |-> FALSE, just_completed |-> FALSE]
                /\ UNCHANGED challenge_history
           ELSE \E row \in result :
                  LET completed ==
                          requirement_met(ChallengeById(row.challenge_id).requirement,
                                          date_str)
                  IN  /\ challenge_history' =
                             (challenge_history \ result)
                             \cup {[h EXCEPT !.completed = completed] : h \in result}
                      /\ ret' = [kind |-> "completion", code |-> 200,
                                 completed |-> completed,
                                 just_completed |-> completed]
        /\ UNCHANGED <<tasks, daily_tasks, next_task_id, next_daily_id,
                       achievements, times_unlocked, today>>

check_challenge_completion(date_str) ==
    LET result == ChallengeOn(challenge_history, date_str)
    IN  /\ IF result = {} \/ \E row \in result : row.completed
           THEN /\ ret' = [kind |-> "completion", code |-> 200,
                           completed |-> \E row \in result : row.completed,
                           just_completed |-> FALSE]
                /\ UNCHANGED challenge_history
           ELSE \E row \in result :
                  LET completed ==
                          requirement_met(ChallengeById(row.challenge_id).requirement,
                                          date_str)
                  IN  IF completed
                      THEN /\ challenge_history' =
                                  (challenge_history \ result)
                                  \cup {[h EXCEPT !.completed = TRUE] : h \in result}
                           /\ ret' = [kind |-> "completion", code |-> 200,
                                      completed |-> TRUE, just_completed |-> TRUE]
                      ELSE /\ ret' = [kind |-> "completion", code |-> 200,
                                      completed |-> FALSE, just_completed |-> FALSE]
                           /\ UNCHANGED challenge_history
        /\ UNCHANGED <<tasks, daily_tasks, next_task_id, next_daily_id,
                       achievements, times_unlocked, today>>

-----------------------------------------------------------------------------
(* The streak calculators of src/services/motivation/gamification.py and   *)
(* achievements.py (the two files hold the same code).                      *)

(* SELECT DISTINCT scheduled_date FROM daily_tasks WHERE status = 'completed' *)
completed_dates_of(dts) ==
    {r.scheduled_date : r \in {x \in dts : x.status = "completed"}}

(* _calculate_current_streak on the fetched dates *)
_calculate_current_streak_from_today(completed_dates, date_today) ==
    IF completed_dates = {}
    THEN 0
    ELSE streak_before(completed_dates, date_today)

_calculate_current_streak(completed_dates, date_today) ==
    IF completed_dates = {}
    THEN 0
    ELSE LET check_date == IF date_today \notin completed_dates
                           THEN date_today - 1
                           ELSE date_today
         IN  streak_before(completed_dates, check_date)

(* ORDER BY scheduled_date: the dates in ascending order *)
RECURSIVE ordered(_)
ordered(dates) ==
    IF dates = {} THEN <<>>
    ELSE LET first == CHOOSE d \in dates : \A o \in dates : d <= o
         IN  <<first>> \o ordered(dates \ {first})

(* The loop of _calculate_longest_streak; prev_date is NULL for None *)
RECURSIVE longest_loop(_, _, _, _)
longest_loop(dates, longest, current, prev_date) ==
    IF dates = <<>> THEN longest
    ELSE LET current_date == Head(dates)
         IN  IF prev_date = NULL \/ current_date - prev_date = 1
             THEN longest_loop(Tail(dates),
                               IF current + 1 > longest THEN current + 1 ELSE longest,
                               current + 1, current_date)
             ELSE longest_loop(Tail(dates), longest, 1, current_date)

_calculate_longest_streak_of_last_run(completed_dates) ==
    IF completed_dates = {} THEN 0
    ELSE streak_before(completed_dates,
                       CHOOSE d \in completed_dates : \A o \in completed_dates : d >= o)

_calculate_longest_streak(completed_dates) ==
    IF completed_dates = {} THEN 0
    ELSE longest_loop(ordered(completed_dates), 0, 0, NULL)

-----------------------------------------------------------------------------
(* AchievementEngine of src/services/motivation/achievements.py *)

(* ACHIEVEMENTS in the order of the dict: the requirement of each id, and   *)
(* which of the startswith ("x*") and substring ("*x*") tests of            *)
(* _check_achievement_requirement the id passes.                            *)
ACHIEVEMENTS == <<
    [id |-> "first_task", requirement |-> 1, hidden |-> FALSE,
     id_tests |-> {}],
    [id |-> "task_10", requirement |-> 10, hidden |-> FALSE,
     id_tests |-> {"task_*"}],
    [id |-> "task_50", requirement |-> 50, hidden |-> FALSE,
     id_tests |-> {"task_*"}],
    [id |-> "task_100", requirement |-> 100, hidden |-> FALSE,
     id_tests |-> {"task_*"}],
    [id |-> "task_250", requirement |-> 250, hidden |-> FALSE,
     id_tests |-> {"task_*"}],
    [id |-> "task_500", requirement |-> 500, hidden |-> FALSE,
     id_tests |-> {"task_*"}],
    [id |-> "task_1000", requirement |-> 1000, hidden |-> FALSE,
     id_tests |-> {"task_*"}],
    [id |-> "streak_3", requirement |-> 3, hidden |-> FALSE,
     id_tests |-> {"streak_*"}],
    [id |-> "streak_7", requirement |-> 7, hidden |-> FALSE,
     id_tests |-> {"streak_*"}],
    [id |-> "streak_14", requirement |-> 14, hidden |-> FALSE,
     id_tests |-> {"streak_*"}],
    [id |-> "streak_30", requirement |-> 30, hidden |-> FALSE,
     id_tests |-> {"streak_*"}],
    [id |-> "streak_60", requirement |-> 60, hidden |-> FALSE,
     id_tests |-> {"streak_*"}],
    [id |-> "streak_90", requirement |-> 90, hidden |-> FALSE,
     id_tests |-> {"streak_*"}],
    [id |-> "streak_180", requirement |-> 180, hidden |-> FALSE,
     id_tests |-> {"streak_*"}],
    [id |-> "streak_365", requirement |-> 365, hidden |-> FALSE,
     id_tests |-> {"streak_*"}],
    [id |-> "points_100_day", requirement |-> 100, hidden |-> FALSE,
     id_tests |-> {"*points*", "*day*"}],
    [id |-> "points_200_day", requirement |-> 200, hidden |-> FALSE,
     id_tests |-> {"*points*", "*day*"}],
    [id |-> "points_500_total", requirement |-> 500, hidden |-> FALSE,
     id_tests |-> {"*points*"}],
    [id |-> "points_2500_total", requirement |-> 2500, hidden |-> FALSE,
     id_tests |-> {"*points*"}],
    [id |-> "points_10000_total", requirement |-> 10000, hidden |-> FALSE,
     id_tests |-> {"*points*"}],
    [id |-> "points_50000_total", requirement |-> 50000, hidden |-> FALSE,
     id_tests |-> {"*points*"}],
    [id |-> "deep_work_10", requirement |-> 10, hidden |-> FALSE,
     id_tests |-> {"deep_work_*"}],
    [id |-> "deep_work_50", requirement |-> 50, hidden |-> FALSE,
     id_tests |-> {"deep_work_*"}],
    [id |-> "deep_work_100", requirement |-> 100, hidden |-> FALSE,
     id_tests |-> {"deep_work_*"}],
    [id |-> "learning_25", requirement |-> 25, hidden |-> FALSE,
     id_tests |-> {"learning_*"}],
    [id |-> "learning_100", requirement |-> 100, hidden |-> FALSE,
     id_tests |-> {"learning_*"}],
    [id |-> "admin_master", requirement |-> 50, hidden |-> FALSE,
     id_tests |-> {}],
    [id |-> "balanced_day", requirement |-> 1, hidden |-> FALSE,
     id_tests |-> {"*day*"}],
    [id |-> "early_bird", requirement |-> 1, hidden |-> FALSE,
     id_tests |-> {"*early_bird*"}],
    [id |-> "early_bird_10", requirement |-> 10, hidden |-> FALSE,
     id_tests |-> {"*early_bird*"}],
    [id |-> "night_owl", requirement |-> 1, hidden |-> FALSE,
     id_tests |-> {"*night_owl*"}],
    [id |-> "night_owl_10", requirement |-> 10, hidden |-> FALSE,
     id_tests |-> {"*night_owl*"}],
    [id |-> "speed_demon", requirement |-> 1, hidden |-> FALSE,
     id_tests |-> {}],
    [id |-> "perfect_day", requirement |-> 1, hidden |-> FALSE,
     id_tests |-> {"*day*", "*perfect*"}],
    [id |-> "perfect_week", requirement |-> 7, hidden |-> FALSE,
     id_tests |-> {"*perfect_week*", "*perfect*"}],
    [id |-> "perfect_month", requirement |-> 30, hidden |-> FALSE,
     id_tests |-> {"*perfect*"}],
    [id |-> "no_penalty_week", requirement |-> 7, hidden |-> FALSE,
     id_tests |-> {}],
    [id |-> "comeback", requirement |-> 3, hidden |-> FALSE,
     id_tests |-> {"*comeback*"}],
    [id |-> "comeback_master", requirement |-> 10, hidden |-> FALSE,
     id_tests |-> {"*comeback*"}],
    [id |-> "streak_recovery", requirement |-> 1, hidden |-> FALSE,
     id_tests |-> {"streak_*"}],
    [id |-> "complexity_5_first", requirement |-> 1, hidden |-> FALSE,
     id_tests |-> {"*complexity_5*"}],
    [id |-> "complexity_5_10", requirement |-> 10, hidden |-> FALSE,
     id_tests |-> {"*complexity_5*"}],
    [id |-> "complexity_5_50", requirement |-> 50, hidden |-> FALSE,
     id_tests |-> {"*complexity_5*"}],
    [id |-> "challenge_first", requirement |-> 1, hidden |-> FALSE,
     id_tests |-> {"challenge_*"}],
    [id |-> "challenge_7", requirement |-> 7, hidden |-> FALSE,
     id_tests |-> {"challenge_*"}],
    [id |-> "challenge_30", requirement |-> 30, hidden |-> FALSE,
     id_tests |-> {"challenge_*"}],
    [id |-> "midnight_warrior", requirement |-> 1, hidden |-> TRUE,
     id_tests |-> {"*midnight*"}],
    [id |-> "weekend_legend", requirement |-> 50, hidden |-> TRUE,
     id_tests |-> {}],
    [id |-> "monday_master", requirement |-> 10, hidden |-> TRUE,
     id_tests |-> {"*day*"}],
    [id |-> "variety_king", requirement |-> 100, hidden |-> TRUE,
     id_tests |-> {}],
    [id |-> "speed_run", requirement |-> 5, hidden |-> TRUE,
     id_tests |-> {}]
>>

(* SUM(t.complexity * 15) over joined rows *)
RECURSIVE approximate_points(_)
approximate_points(rows) ==
    IF rows = {} THEN 0
    ELSE LET x == CHOOSE x \in rows : TRUE
         IN  x[2].complexity * 15 + approximate_points(rows \ {x})

(* ORDER BY daily_points DESC LIMIT 1 *)
best_of(points) ==
    IF points = {} THEN 0 ELSE CHOOSE p \in points : \A o \in points : p >= o

_gather_user_stats ==
    LET done == {r \in daily_tasks : r.status = "completed"}
        joined_done == Joined(done, tasks)
        completed_dates == completed_dates_of(daily_tasks)
        scheduled_dates == {r.scheduled_date : r \in daily_tasks}
        timed == {r \in done : r.completed_at # NULL}
    IN  [total_completed |-> Cardinality(done),
         current_streak |-> _calculate_current_streak(completed_dates, today),
         longest_streak |-> _calculate_longest_streak(completed_dates),
         total_points |-> approximate_points(joined_done),
         best_daily_points |->
             best_of({approximate_points({x \in joined_done : x[1].scheduled_date = d})
                         : d \in {x[1].scheduled_date : x \in joined_done}}),
         cognitive_counts |->
             [load \in {x[2].cognitive_load : x \in joined_done} |->
                 Cardinality({x \in joined_done : x[2].cognitive_load = load})],
         early_bird_count |-> Cardinality({r \in timed : r.completed_at < 7}),
         night_owl_count |-> Cardinality({r \in timed : r.completed_at >= 22}),
         complexity_5_count |-> Cardinality({x \in joined_done : x[2].complexity = 5}),
         comeback_count |-> Cardinality({r \in done : r.rolled_over_count > 0}),
         perfect_days |->
             Cardinality({d \in scheduled_dates :
                             \A r \in daily_tasks :
                                 r.scheduled_date = d => r.status = "completed"}),
         challenges_completed |-> Cardinality({h \in challenge_history : h.completed}),
         weekend_tasks |-> Cardinality({r \in done : weekday(r.scheduled_date) \in {5, 6}}),
         balanced_days |->
             Cardinality({d \in completed_dates :
                             Cardinality({x[2].cognitive_load :
                                             x \in {y \in joined_done :
                                                       y[1].scheduled_date = d}}) >= 4})]

(* stats['cognitive_counts'].get(load, 0) *)
cognitive_count(stats, load) ==
    IF load \in DOMAIN stats.cognitive_counts THEN stats.cognitive_counts[load] ELSE 0

(* The tests are tried in the order of the code; the first that matches     *)
(* the id decides.                                                          *)
_check_achievement_requirement(achievement, stats) ==
    LET achievement_id == achievement.id
        requirement == achievement.requirement
        passes(test) == test \in achievement.id_tests
    IN  IF passes("task_*") \/ achievement_id = "first_task"
        THEN stats.total_completed >= requirement
        ELSE IF passes("streak_*")
        THEN stats.current_streak >= requirement \/ stats.longest_streak >= requirement
        ELSE IF passes("*points*")
        THEN IF passes("*day*")
             THEN stats.best_daily_points >= requirement
             ELSE stats.total_points >= requirement
        ELSE IF passes("deep_work_*")
        THEN cognitive_count(stats, "deep_work") >= requirement
        ELSE IF passes("learning_*")
        THEN cognitive_count(stats, "learning") >= requirement
        ELSE IF achievement_id = "admin_master"
        THEN cognitive_count(stats, "admin") >= requirement
        ELSE IF achievement_id = "balanced_day"
        THEN stats.balanced_days >= requirement
        ELSE IF passes("*early_bird*")
        THEN stats.early_bird_count >= requirement
        ELSE IF passes("*night_owl*") \/ passes("*midnight*")
        THEN stats.night_owl_count >= requirement
        ELSE IF achievement_id = "perfect_day"
        THEN stats.perfect_days >= requirement
        ELSE IF passes("*perfect_week*")
        THEN stats.perfect_days >= 7
        ELSE IF passes("*complexity_5*")
        THEN stats.complexity_5_count >= requirement
        ELSE IF passes("*comeback*")
        THEN stats.comeback_count >= requirement
        ELSE IF passes("challenge_*")
        THEN stats.challenges_completed >= requirement
        ELSE IF achievement_id = "weekend_legend"
        THEN stats.weekend_tasks >= requirement
        ELSE IF achievement_id = "variety_king"
        THEN /\ cognitive_count(stats, "deep_work") + cognitive_count(stats, "learning")
                + cognitive_count(stats, "active_work") + cognitive_count(stats, "admin")
                >= requirement
             /\ \A cat \in valid_loads : cognitive_count(stats, cat) >= 25
        ELSE FALSE

(* check_achievements.  The table achievements is read and written only    *)
(* through achievement_id and unlocked_at, and every row written has        *)
(* unlocked_at set, so the table is the set of the unlocked ids.            *)
(* times_unlocked counts, for the record, how often each id was returned.   *)
check_achievements_rechecking ==
    \E stats \in {_gather_user_stats} :
      LET newly_unlocked ==
              {a.id : a \in {x \in {ACHIEVEMENTS[i] : i \in 1..Len(ACHIEVEMENTS)} :
                                _check_achievement_requirement(x, stats)}}
      IN  /\ achievements' = achievements \cup newly_unlocked
          /\ times_unlocked' =
                 [id \in DOMAIN times_unlocked \cup newly_unlocked |->
                     (IF id \in DOMAIN times_unlocked THEN times_unlocked[id] ELSE 0)
                     + (IF id \in newly_unlocked THEN 1 ELSE 0)]
          /\ ret' = [kind |-> "achievements", code |-> 200,
                     newly_unlocked |-> newly_unlocked]
          /\ UNCHANGED <<tasks, daily_tasks, next_task_id, next_daily_id,
                         challenge_history, today>>

check_achievements ==
    \E stats \in {_gather_user_stats} :
      LET unlocked == achievements
          newly_unlocked ==
              {a.id : a \in {x \in {ACHIEVEMENTS[i] : i \in 1..Len(ACHIEVEMENTS)} :
                                /\ x.id \notin unlocked
                                /\ _check_achievement_requirement(x, stats)}}
      IN  /\ achievements' = achievements \cup newly_unlocked
          /\ times_unlocked' =
                 [id \in DOMAIN times_unlocked \cup newly_unlocked |->
                     (IF id \in DOMAIN times_unlocked THEN times_unlocked[id] ELSE 0)
                     + (IF id \in newly_unlocked THEN 1 ELSE 0)]
          /\ ret' = [kind |-> "achievements", code |-> 200,
                     newly_unlocked |-> newly_unlocked]
          /\ UNCHANGED <<tasks, daily_tasks, next_task_id, next_daily_id,
                         challenge_history, today>>

(* GamificationEngine of src/services/motivation/gamification.py *)

(* int(50 * (level ** 1.8) + 25 * level) for level 1..51: the double is by  *)
(* less than 1 above the integer listed, which is the floor of the exact    *)
(* value (A = entry - 25 * level satisfies A^5 <= 50^5 * level^9 < (A+1)^5) *)
xp_curve == <<
    75, 224, 436, 706, 1030, 1407, 1835, 2311, 2834, 3404,
    4020, 4680, 5384, 6130, 6920, 7751, 8624, 9537, 10491, 11485,
    12519, 13591, 14702, 15852, 17040, 18266, 19529, 20830, 22168, 23542,
    24953, 26400, 27882, 29401, 30956, 32545, 34170, 35830, 37524, 39254,
    41017, 42815, 44647, 46513, 48413, 50346, 52313, 54313, 56346, 58413,
    60512>>

calculate_xp_for_level(level) ==
    IF level <= 1 THEN 0 ELSE xp_curve[level]

(* The loop of calculate_level_from_xp with the comparison made strict *)
RECURSIVE level_loop_strict(_, _)
level_loop_strict(level, total_xp) ==
    IF calculate_xp_for_level(level + 1) < total_xp
    THEN IF level + 1 >= 50 THEN level + 1
         ELSE level_loop_strict(level + 1, total_xp)
    ELSE level

calculate_level_from_xp_strict(total_xp) == level_loop_strict(1, total_xp)

(* while calculate_xp_for_level(level + 1) <= total_xp: level += 1, and     *)
(* break once level >= 50                                                   *)
RECURSIVE level_loop(_, _)
level_loop(level, total_xp) ==
    IF calculate_xp_for_level(level + 1) <= total_xp
    THEN IF level + 1 >= 50 THEN level + 1
         ELSE level_loop(level + 1, total_xp)
    ELSE level

calculate_level_from_xp(total_xp) == level_loop(1, total_xp)

(* MULTIPLIERS['cognitive_load'].get(cognitive_load, 1.0) and               *)
(* MULTIPLIERS['complexity'].get(complexity, 1.0), in tenths                *)
MULTIPLIERS_cognitive_load(cognitive_load) ==
    CASE cognitive_load = "deep_work" -> 20
      [] cognitive_load = "learning" -> 15
      [] cognitive_load = "active_work" -> 12
      [] cognitive_load = "admin" -> 10
      [] OTHER -> 10

MULTIPLIERS_complexity(complexity) ==
    CASE complexity = 1 -> 10
      [] complexity = 2 -> 12
      [] complexity = 3 -> 15
      [] complexity = 4 -> 20
      [] complexity = 5 -> 25
      [] OTHER -> 10

(* int((base_xp + time_bonus) * load_mult * complexity_mult) of             *)
(* get_user_stats; the double product is exact or rounds to the exact       *)
(* integer for complexity 1..5 and time estimates below 600.                *)
task_xp(task) ==
    LET base_xp == task.complexity * 10
        time_bonus == (task.time_estimate \div 30) * 5
    IN  ((base_xp + time_bonus) * MULTIPLIERS_cognitive_load(task.cognitive_load)
            * MULTIPLIERS_complexity(task.complexity)) \div 100

(* total_xp += int(task_xp) over the completed rows joined with their tasks *)
RECURSIVE total_xp_of(_)
total_xp_of(rows) ==
    IF rows = {} THEN 0
    ELSE LET x == CHOOSE x \in rows : TRUE
         IN  task_xp(x[2]) + total_xp_of(rows \ {x})

(* The statistics of GamificationEngine.get_user_stats that are derived     *)
(* from the log                                                             *)
user_stats_of(ts, dts, date_today) ==
    LET completed_tasks == Joined({r \in dts : r.status = "completed"}, ts)
        total_xp == total_xp_of(completed_tasks)
    IN  [total_xp |-> total_xp,
         level |-> calculate_level_from_xp(total_xp),
         current_streak |-> _calculate_current_streak(completed_dates_of(dts), date_today),
         longest_streak |-> _calculate_longest_streak(completed_dates_of(dts)),
         total_completed |-> Cardinality(completed_tasks)]

(* GET /stats: GamificationEngine.get_user_stats *)
get_user_stats ==
    /\ \E stats \in {user_stats_of(tasks, daily_tasks, today)} :
          ret' = [kind |-> "user_stats", code |-> 200,
                  total_xp |-> stats.total_xp,
                  level |-> stats.level,
                  current_streak |-> stats.current_streak,
                  longest_streak |-> stats.longest_streak,
                  total_completed |-> stats.total_completed]
    /\ UNCHANGED <<tasks, daily_tasks, next_task_id, next_daily_id,
                   achievements, times_unlocked, challenge_history, today>>

(* calculate_task_points applied to a task dict, as every caller does *)
score_task(task) ==
    /\ ret' = [kind |-> "points", task |-> task, points |-> calculate_task_points(task)]
    /\ UNCHANGED <<tasks, daily_tasks, next_task_id, next_daily_id,
                   achievements, times_unlocked, challenge_history, today>>

-----------------------------------------------------------------------------
(* The scheduling API on an empty store: one task T is scheduled with the  *)
(* request defaults, worked on, removed and rolled over the calendar.      *)

ValidData == [title |-> "t", complexity |-> 3, cognitive_load |-> "deep_work",
              time_estimate |-> 60, parent_id |-> ABSENT]

(* The ids a request names: those of the stored rows, and one that no row  *)
(* has.                                                                     *)
RequestIds == {r.id : r \in daily_tasks} \cup {next_daily_id}

AddDefault(t) == [task_id |-> t, rolled_over_count |-> ABSENT, penalty_points |-> ABSENT]

NextRoll ==
    \/ \E d \in Dates :
          /\ tasks = {}
          /\ next_daily_id <= MaxDaily
          /\ quick_add_task(d, ValidData)
    \/ \E d \in Dates :
          /\ next_daily_id <= MaxDaily
          /\ add_task_to_day(d, AddDefault(1))
    \/ \E id \in RequestIds, s \in Statuses : update_task_status(id, s, 12)
    \/ \E id \in RequestIds : remove_daily_task(id)
    \/ \E from_date, to_date \in Dates :
          /\ process_rollover(from_date, to_date)
          /\ next_daily_id' <= MaxDaily + 1

SpecRoll == Init /\ [][NextRoll]_vars

-----------------------------------------------------------------------------
(* C1: rolling a task T that was scheduled on day1 and left pending to a   *)
(* day2 that has no instance of T leaves exactly one instance of (T, day2), *)
(* pending with rolled_over_count = 1, and the day1 instance abandoned;     *)
(* rolling that instance, still pending, on to a day3 gives an instance of  *)
(* (T, day3) with rolled_over_count = 2 and a penalty greater than or equal *)
(* to the day2 instance's.  (Under SpecRoll every instance is scheduled     *)
(* with rolled_over_count 0, so an instance with count 1 is a rolled one.)  *)
C1_Rollable(r, from_date, to_date) ==
    /\ r.scheduled_date = from_date
    /\ r.status = "pending"
    /\ \E t \in tasks : t.id = r.task_id
    /\ ~ \E x \in daily_tasks : x.task_id = r.task_id /\ x.scheduled_date = to_date

C1_Rolled(r, from_date, to_date) ==
    LET new == {n \in daily_tasks' :
                   n.task_id = r.task_id /\ n.scheduled_date = to_date}
    IN  /\ Cardinality(new) = 1
        /\ \A n \in new :
              /\ n.status = "pending"
              /\ r.rolled_over_count = 0 => n.rolled_over_count = 1
              /\ r.rolled_over_count = 1 =>
                    /\ n.rolled_over_count = 2
                    /\ n.penalty_points >= r.penalty_points
        /\ \E o \in daily_tasks' :
              /\ o.id = r.id
              /\ o.scheduled_date = from_date
              /\ o.status = "abandoned"

C1_Rollover ==
    [][\A from_date, to_date \in Dates : \A r \in daily_tasks :
          (C1_Rollable(r, from_date, to_date) /\ process_rollover(from_date, to_date))
          => C1_Rolled(r, from_date, to_date)]_vars

(* T was scheduled, rolled to a second day and rolled again to a third *)
C1_Witness ==
    /\ ret.kind = "rollover"
    /\ ret.rolled_over_count = 1
    /\ \E a, b, c \in daily_tasks :
          /\ a.task_id = b.task_id /\ b.task_id = c.task_id
          /\ a.rolled_over_count = 0 /\ a.status = "abandoned"
          /\ b.rolled_over_count = 1 /\ b.status = "abandoned"
          /\ c.rolled_over_count = 2 /\ c.status = "pending"
          /\ c.penalty_points >= b.penalty_points
          /\ ret.tasks[1].id = c.id

(* C2: there is at most one scheduled instance for each (task, date) pair  *)
C2_OneInstancePerTaskDate ==
    \A r1, r2 \in daily_tasks :
        (r1.task_id = r2.task_id /\ r1.scheduled_date = r2.scheduled_date) => r1 = r2

(* A second scheduling of an already scheduled (task, date) was rejected   *)
(* while T has instances on two days.                                      *)
C2_Witness ==
    /\ ret = Error(400)
    /\ \E r1, r2 \in daily_tasks : r1.task_id = r2.task_id /\ r1.id # r2.id

-----------------------------------------------------------------------------
(* The daily challenge of today while one task of complexity 5 is          *)
(* scheduled, worked on, removed and rolled over.                          *)

MaxPick == 2       \* the candidates of select_challenge that may be drawn

HardData == [title |-> "t", complexity |-> 5, cognitive_load |-> "deep_work",
             time_estimate |-> 60, parent_id |-> ABSENT]

NextChallenge ==
    \/ /\ tasks = {}
       /\ quick_add_task(today, HardData)
    \/ \E id \in RequestIds, s \in Statuses : update_task_status(id, s, 12)
    \/ \E id \in RequestIds : remove_daily_task(id)
    \/ \E from_date, to_date \in Dates :
          /\ process_rollover(from_date, to_date)
          /\ next_daily_id' <= MaxDaily + 1
    \/ \E pick \in 1..MaxPick, rand_offset \in {0, 15} :
          get_daily_challenge(today, pick, rand_offset)
    \/ check_challenge_completion(today)

SpecChallenge == Init /\ [][NextChallenge]_vars

(* C3: two consecutive get_daily_challenge calls for one date, the first    *)
(* made when no challenge is stored for the date (its response is the last  *)
(* response when the second is made), return the same challenge id and the  *)
(* same bonus_points.                                                       *)
C3_SameChallengeTwice ==
    [][\A d \in Dates, pick \in 1..MaxPick, rand_offset \in {0, 15} :
          ( /\ ret.kind = "challenge"
            /\ ret.date = d
            /\ ~ret.existing
            /\ get_daily_challenge(d, pick, rand_offset) )
          => /\ ret'.id = ret.id
             /\ ret'.bonus_points = ret.bonus_points]_vars

(* C5: a stored challenge that is completed stays stored and completed *)
C5_CompletedStays ==
    [][\A h \in challenge_history :
          h.completed =>
              \A h2 \in ChallengeOn(challenge_history', h.challenge_date) :
                  h2.completed]_vars

(* The challenge of today is stored as completed and was asked for again    *)
(* after the task that completed it was set back or taken away.             *)
C5_Witness ==
    /\ ret.kind \in {"challenge", "completion"}
    /\ ret.completed
    /\ \E h \in ChallengeOn(challenge_history, today) : h.completed
    /\ ~ \E r \in daily_tasks : r.scheduled_date = today /\ r.status = "completed"

-----------------------------------------------------------------------------
(* Achievements while one task of complexity 5 is scheduled today, worked   *)
(* on in the early morning or at noon, removed and rolled over.             *)

NextAch ==
    \/ /\ tasks = {}
       /\ quick_add_task(today, HardData)
    \/ \E id \in RequestIds, s \in Statuses, now_hour \in {6, 12} :
          update_task_status(id, s, now_hour)
    \/ \E id \in RequestIds : remove_daily_task(id)
    \/ \E from_date, to_date \in Dates :
          /\ process_rollover(from_date, to_date)
          /\ next_daily_id' <= MaxDaily + 1
    \/ check_achievements

SpecAch == Init /\ [][NextAch]_vars

(* C4: each achievement id is returned as newly unlocked by                 *)
(* check_achievements at most once, and a check_achievements call that      *)
(* follows another with nothing in between (the last response is that of a  *)
(* check) returns an empty list.                                            *)
C4_UnlockedOnce ==
    /\ [](\A id \in DOMAIN times_unlocked : times_unlocked[id] <= 1)
    /\ [][(ret.kind = "achievements" /\ check_achievements)
            => ret'.newly_unlocked = {}]_vars

(* A check unlocked an achievement and skipped another whose requirement is *)
(* met and that an earlier check had unlocked.                              *)
C4_Witness ==
    /\ ret.kind = "achievements"
    /\ ret.newly_unlocked # {}
    /\ \E i \in 1..Len(ACHIEVEMENTS) :
          /\ ACHIEVEMENTS[i].id \in achievements
          /\ ACHIEVEMENTS[i].id \notin ret.newly_unlocked
          /\ times_unlocked[ACHIEVEMENTS[i].id] = 1
          /\ _check_achievement_requirement(ACHIEVEMENTS[i], _gather_user_stats)

-----------------------------------------------------------------------------
(* Task nesting: tasks are created with or without a parent_id, scheduled   *)
(* today, made subtasks of one another and removed from the day.            *)

MaxTasks == 2      \* rows ever inserted into tasks

NextNest ==
    \/ \E parent_id \in {ABSENT} \cup 1..MaxTasks :
          /\ next_task_id <= MaxTasks
          /\ create_task([ValidData EXCEPT !.parent_id = parent_id])
    \/ \E t \in tasks :
          /\ next_daily_id <= MaxDaily
          /\ add_task_to_day(today, AddDefault(t.id))
    \/ \E id \in RequestIds, parent \in RequestIds \cup {NULL} :
          set_task_parent(id, parent)
    \/ \E id \in RequestIds : remove_daily_task(id)

SpecNest == Init /\ [][NextNest]_vars

(* C6: nesting is at most one level deep: no task that has a parent is the  *)
(* parent of another task, and no task is its own parent.                   *)
C6_OneLevelNesting ==
    \A t \in tasks :
        t.parent_id # NULL =>
            /\ t.parent_id # t.id
            /\ ~ \E c \in tasks : c.parent_id = t.id

-----------------------------------------------------------------------------
(* The streaks of every log of a short calendar: each day has no instance   *)
(* (it was removed), a pending one or a completed one, and today is any     *)
(* day of the calendar.                                                     *)

MaxDay == 5        \* the calendar of the streaks is the days 1..MaxDay

StreakDays == 1..MaxDay

InitStreak ==
    \E log \in [StreakDays -> {"none", "pending", "completed"}], date_today \in StreakDays :
        /\ tasks = {NewTaskRow(d, ValidData, NULL) : d \in StreakDays}
        /\ daily_tasks =
               {[NewDailyRow(d, d, d, 0, 0) EXCEPT
                    !.status = log[d],
                    !.completed_at = IF log[d] = "completed" THEN 12 ELSE NULL]
                  : d \in {x \in StreakDays : log[x] # "none"}}
        /\ next_task_id = MaxDay + 1
        /\ next_daily_id = MaxDay + 1
        /\ achievements = {}
        /\ times_unlocked = <<>>
        /\ challenge_history = {}
        /\ today = date_today
        /\ ret = [kind |-> "none", code |-> 0]

NextStreak == get_user_stats

SpecStreak == InitStreak /\ [][NextStreak]_vars

(* The days of the log that have a completed instance *)
CompletedDays == {d \in StreakDays : \E r \in daily_tasks :
                                       r.scheduled_date = d /\ r.status = "completed"}

(* The number of consecutive days of S that end at day e *)
RunEndingAt(S, e) ==
    CHOOSE k \in 0..MaxDay :
        /\ \A i \in 0..(k - 1) : (e - i) \in S
        /\ (e - k) \notin S

(* C7: the current streak is the number of consecutive completed days that  *)
(* end at today when today is completed, otherwise that end at yesterday,   *)
(* and 0 when neither today nor yesterday is completed.                     *)
C7_CurrentStreak ==
    [][get_user_stats =>
          ret'.current_streak =
              IF today \in CompletedDays THEN RunEndingAt(CompletedDays, today)
              ELSE IF (today - 1) \in CompletedDays
                   THEN RunEndingAt(CompletedDays, today - 1)
                   ELSE 0]_vars

(* Today has a pending instance only, and the streak of the days before it  *)
(* is reported.                                                             *)
C7_Witness ==
    /\ ret.kind = "user_stats"
    /\ ret.current_streak = 3
    /\ today \notin CompletedDays
    /\ \E r \in daily_tasks : r.scheduled_date = today /\ r.status = "pending"

(* C8: the longest streak is the length of the longest run of consecutive   *)
(* days that all are completed, and 0 when no day is completed.             *)
C8_LongestStreak ==
    [][get_user_stats =>
          /\ \A d \in CompletedDays : RunEndingAt(CompletedDays, d) <= ret'.longest_streak
          /\ \/ CompletedDays = {} /\ ret'.longest_streak = 0
             \/ \E d \in CompletedDays :
                    RunEndingAt(CompletedDays, d) = ret'.longest_streak]_vars

(* The longest run lies in the past: a shorter run follows it and the       *)
(* current streak is 0.                                                     *)
C8_Witness ==
    /\ ret.kind = "user_stats"
    /\ ret.longest_streak = 2
    /\ ret.current_streak = 0
    /\ \E d \in CompletedDays : (d - 1) \notin CompletedDays /\ (d - 2) \in CompletedDays

-----------------------------------------------------------------------------
(* Scoring: calculate_task_points on every task dict of a range *)

MaxTime == 60      \* time estimates are 0..MaxTime minutes

ScoreInputs ==
    [complexity : 1..5,
     cognitive_load : valid_loads \cup {"unrecognized", NULL_TEXT},
     time_estimate : 0..MaxTime]

NextScore == \E task \in ScoreInputs : score_task(task)

SpecScore == Init /\ [][NextScore]_vars

(* The multiplier of the scoring formula, in tenths *)
C9_Multiplier10(cognitive_load) ==
    IF cognitive_load = "deep_work" THEN 20
    ELSE IF cognitive_load = "learning" THEN 15
    ELSE IF cognitive_load = "active_work" THEN 12
    ELSE 10

(* C9: calculate_task_points returns                                        *)
(* floor((complexity * 10 + floor(time_estimate / 30) * 5) * m) with m 2.0  *)
(* for deep_work, 1.5 for learning, 1.2 for active_work, 1.0 for admin and  *)
(* for an unrecognized or null category.  (A step that leaves a "points"    *)
(* response is score_task on the task of the response.)                     *)
C9_ScoringFormula ==
    [][ret'.kind = "points" =>
          /\ score_task(ret'.task)
          /\ \E k \in 0..MaxTime :
                /\ 30 * k <= ret'.task.time_estimate
                /\ ret'.task.time_estimate < 30 * (k + 1)
                /\ LET scaled == (ret'.task.complexity * 10 + k * 5)
                                 * C9_Multiplier10(ret'.task.cognitive_load)
                   IN  /\ 10 * ret'.points <= scaled
                       /\ scaled < 10 * (ret'.points + 1)]_vars

(* A score that the floor truncates: a learning task of 35 * 1.5 = 52.5,    *)
(* whose 45 minutes hold one half hour.                                     *)
C9_Witness ==
    /\ ret.kind = "points"
    /\ ret.task = [complexity |-> 3, cognitive_load |-> "learning", time_estimate |-> 45]
    /\ ret.points = 52

-----------------------------------------------------------------------------
(* The end-to-end scenario: tasks (3, deep_work, 60) are scheduled, worked  *)
(* on and reported by GET /daily/<date>.                                    *)

NextScenario ==
    \/ \E d \in Dates :
          /\ next_task_id <= MaxTasks
          /\ quick_add_task(d, ValidData)
    \/ \E id \in RequestIds, s \in Statuses : update_task_status(id, s, 12)
    \/ \E d \in Dates : get_daily_tasks(d)

SpecScenario == Init /\ [][NextScenario]_vars

(* A reported instance that is completed and whose task is (3, deep_work, 60) *)
C10_Scenario(x) ==
    /\ x.status = "completed"
    /\ \E t \in tasks :
          /\ t.id = x.task_id
          /\ t.complexity = 3
          /\ t.cognitive_load = "deep_work"
          /\ t.time_estimate = 60

(* C10 as stated: the task (3, deep_work, 60), scheduled and completed, is  *)
(* scored at exactly 70 points.                                             *)
C10_ScoresSeventy ==
    [][\A d \in Dates :
          get_daily_tasks(d) =>
              \A x \in ret'.tasks : C10_Scenario(x) => x.points = 70]_vars

(* C10, corrected: the task (3, deep_work, 60), scheduled and completed, is *)
(* scored at exactly 80 points: 60 minutes are two half hours, so the time  *)
(* bonus is 10 and the score (30 + 10) * 2.0.                               *)
C10_ScoresEighty ==
    [][\A d \in Dates :
          get_daily_tasks(d) =>
              \A x \in ret'.tasks : C10_Scenario(x) => x.points = 80]_vars

(* The completed task was reported *)
C10_Witness ==
    /\ ret.kind = "daily_tasks"
    /\ \E x \in ret.tasks : C10_Scenario(x) /\ x.points = 80 /\ x.net_points = 80

-----------------------------------------------------------------------------
(* PointsEngine of src/services/motivation/points.py.  A float multiplier   *)
(* is kept in hundredths; int(points * multiplier) is the floor of the      *)
(* exact product except where the binary product falls just below an        *)
(* integer, which the exception sets list for points up to 1000.            *)

MaxRolled == 6     \* rollover counts of a scored task are -1..MaxRolled

BASE_POINTS_complexity(complexity) ==
    CASE complexity = 1 -> 10
      [] complexity = 2 -> 20
      [] complexity = 3 -> 35
      [] complexity = 4 -> 55
      [] complexity = 5 -> 80
      [] OTHER -> 35

COGNITIVE_MULTIPLIERS(cognitive_load) ==
    CASE cognitive_load = "deep_work" -> 200
      [] cognitive_load = "learning" -> 150
      [] cognitive_load = "active_work" -> 120
      [] cognitive_load = "admin" -> 100
      [] OTHER -> 120

(* The multiplier of the first TIME_BONUSES entry whose hours hold the      *)
(* hour, 0 for None                                                         *)
_get_time_bonus(hour) ==
    IF 5 <= hour /\ hour < 7 THEN 130
    ELSE IF 7 <= hour /\ hour < 9 THEN 115
    ELSE IF 9 <= hour /\ hour < 12 THEN 110
    ELSE IF 14 <= hour /\ hour < 17 THEN 105
    ELSE IF 19 <= hour /\ hour < 22 THEN 110
    ELSE IF 22 <= hour /\ hour < 24 THEN 125
    ELSE IF 0 <= hour /\ hour < 5 THEN 140
    ELSE 0

(* The multiplier of the highest COMBO_MULTIPLIERS key not above the count, *)
(* 0 for None                                                               *)
_get_combo_info(combo_count) ==
    IF combo_count >= 10 THEN 250
    ELSE IF combo_count >= 9 THEN 200
    ELSE IF combo_count >= 8 THEN 190
    ELSE IF combo_count >= 7 THEN 175
    ELSE IF combo_count >= 6 THEN 160
    ELSE IF combo_count >= 5 THEN 150
    ELSE IF combo_count >= 4 THEN 130
    ELSE IF combo_count >= 3 THEN 120
    ELSE IF combo_count >= 2 THEN 110
    ELSE 0

(* points for which the double points * 1.15 (resp. 1.4) is below the exact *)
(* product, an integer                                                      *)
below_115 == {100, 180, 200, 220, 340, 360, 380, 400, 420, 440, 660, 680,
              700, 720, 740, 760, 780, 800, 820, 840, 860, 880}
below_140 == {45, 85, 90, 165, 170, 175, 180, 325, 330, 335, 340, 345, 350,
              355, 360, 365, 645, 650, 655, 660, 665, 670, 675, 680, 685,
              690, 695, 700, 705, 710, 715, 720, 725, 730}

(* int(points * multiplier) *)
int_times(points, multiplier) ==
    IF (multiplier = 115 /\ points \in below_115)
       \/ (multiplier = 140 /\ points \in below_140)
    THEN (points * multiplier) \div 100 - 1
    ELSE (points * multiplier) \div 100

(* int(points * (multiplier - 1)) of the weekend_warrior (1.15) and         *)
(* speed_demon (1.2) bonuses: the doubles 1.15 - 1 and 1.2 - 1 are below    *)
(* 0.15 and 0.2, so an exact integer product is truncated to one less.      *)
int_extra(points, multiplier) ==
    LET exact == points * (multiplier - 100)
    IN  IF points > 0 /\ exact % 100 = 0 THEN exact \div 100 - 1
        ELSE exact \div 100

(* The loop of _calculate_penalty: the sum of 3 * 1.5^i for i < n, in       *)
(* units of 1 / 2^n (the doubles are exact)                                 *)
RECURSIVE penalty_loop(_, _, _)
penalty_loop(i, n, penalty) ==
    IF i >= n THEN penalty
    ELSE penalty_loop(i + 1, n, penalty + 3 * (3 ^ i) * (2 ^ (n - i)))

_calculate_penalty_uncapped(rolled_over_count) ==
    IF rolled_over_count <= 0 THEN 0
    ELSE penalty_loop(0, rolled_over_count, 0) \div (2 ^ rolled_over_count)

_calculate_penalty(rolled_over_count) ==
    IF rolled_over_count <= 0 THEN 0
    ELSE LET penalty == penalty_loop(0, rolled_over_count, 0)
                        \div (2 ^ rolled_over_count)
         IN  IF penalty < 25 THEN penalty ELSE 25

(* PointsEngine.calculate_task_points(task_data, context): the fields of    *)
(* the breakdown that carry points                                          *)
PointsEngine_breakdown(task_data, context) ==
    LET complexity == Get(task_data.complexity, 3)
        cognitive_load == task_data.cognitive_load
        time_estimate == Get(task_data.time_estimate, 30)
        rolled_over_count == Get(task_data.rolled_over_count, 0)
        base_points == BASE_POINTS_complexity(complexity)
        time_bonus == (time_estimate \div 30) * 5
        points3 == int_times(base_points + time_bonus,
                             COGNITIVE_MULTIPLIERS(cognitive_load))
        time_mult == IF context.completion_hour = NULL THEN 0
                     ELSE _get_time_bonus(context.completion_hour)
        points4 == IF time_mult # 0 THEN int_times(points3, time_mult) ELSE points3
        combo_mult == IF context.combo_count >= 2
                      THEN _get_combo_info(context.combo_count) ELSE 0
        points5 == IF combo_mult # 0 THEN int_times(points4, combo_mult) ELSE points4
        first_of_day == IF context.is_first_of_day THEN 15 ELSE 0
        complexity_master == IF complexity = 5 THEN 50 ELSE 0
        comeback == IF rolled_over_count > 0 THEN 25 ELSE 0
        points6 == points5 + first_of_day + complexity_master + comeback
        points7 == IF context.is_weekend
                   THEN points6 + int_extra(points6, 115) ELSE points6
        points == IF /\ context.actual_time # NULL
                     /\ context.actual_time # 0
                     /\ context.actual_time * 10 < time_estimate * 8
                  THEN points7 + int_extra(points7, 120) ELSE points7
        penalty == _calculate_penalty(rolled_over_count)
    IN  [base_points |-> base_points,
         time_bonus |-> time_bonus,
         total_points |-> points,
         penalties |-> IF task_data.status # "completed" THEN penalty ELSE 0,
         net_points |-> IF task_data.status # "completed" THEN 0 - penalty ELSE points]

(* A call of PointsEngine.calculate_task_points with an explicit context,   *)
(* as get_daily_stats makes it: ret holds the arguments of the call in      *)
(* flight, and the breakdown once the call has returned.                    *)
PointsEngine_calculate_task_points ==
    /\ ret.kind = "call"
    /\ ret' = [kind |-> "breakdown",
               task_data |-> ret.task_data,
               context |-> ret.context,
               breakdown |-> PointsEngine_breakdown(ret.task_data, ret.context)]
    /\ UNCHANGED <<tasks, daily_tasks, next_task_id, next_daily_id,
                   achievements, times_unlocked, challenge_history, today>>

PointsTaskData ==
    [complexity : 1..5,
     cognitive_load : valid_loads \cup {NULL_TEXT},
     time_estimate : {0, 30, 45, 60},
     rolled_over_count : (-1)..MaxRolled,
     status : {"completed", "pending"}]

PointsContexts ==
    [completion_hour : {NULL, 3, 8, 12},
     combo_count : {0, 2},
     is_first_of_day : BOOLEAN,
     is_weekend : BOOLEAN,
     actual_time : {NULL, 20}]

InitPoints ==
    /\ tasks = {}
    /\ daily_tasks = {}
    /\ next_task_id = 1
    /\ next_daily_id = 1
    /\ achievements = {}
    /\ times_unlocked = <<>>
    /\ challenge_history = {}
    /\ today = 1
    /\ ret \in [kind : {"call"}, task_data : PointsTaskData, context : PointsContexts]

NextPoints == PointsEngine_calculate_task_points

SpecPoints == InitPoints /\ [][NextPoints]_vars

(* No time-of-day, combo or special bonus is in effect *)
C11_NoBonus(call) ==
    /\ call.context.completion_hour = NULL
    /\ call.context.combo_count = 0
    /\ ~call.context.is_first_of_day
    /\ ~call.context.is_weekend
    /\ call.context.actual_time = NULL
    /\ call.task_data.rolled_over_count <= 0
    /\ call.task_data.complexity # 5
    /\ call.task_data.status = "completed"

(* C11: the points engine's points of a completed task, with no             *)
(* time-of-day, combo or special bonus in effect, are the value of          *)
(* calculate_task_points for the same complexity, cognitive load and time   *)
(* estimate.                                                                *)
C11_SamePointsEverywhere ==
    (ret.kind = "breakdown" /\ C11_NoBonus(ret))
        => ret.breakdown.total_points = calculate_task_points(ret.task_data)

(* C12: _calculate_penalty(n) is 0 for n <= 0 and otherwise                 *)
(* min(floor(sum of 3 * 1.5^i for i in [0, n)), 25), where the sum is       *)
(* 6 * (3^n - 2^n) / 2^n; it is non-decreasing in n and never above 25.     *)
(* (The penalty of a breakdown is _calculate_penalty of the task's rollover *)
(* count when the task is not completed.)                                   *)
C12_EscalatingPenalty ==
    (ret.kind = "breakdown" /\ ret.task_data.status # "completed") =>
        LET n == ret.task_data.rolled_over_count
            penalty == ret.breakdown.penalties
            sum == 6 * (3 ^ n - 2 ^ n)
        IN  /\ n <= 0 => penalty = 0
            /\ n > 0 =>
                 /\ sum >= 25 * 2 ^ n => penalty = 25
                 /\ sum < 25 * 2 ^ n =>
                       /\ penalty * 2 ^ n <= sum
                       /\ sum < (penalty + 1) * 2 ^ n
            /\ penalty >= 0
            /\ penalty <= 25
            /\ \A m \in (-1)..n : _calculate_penalty(m) <= penalty

(* A penalty that the floor truncates (24.375) and one that the cap cuts    *)
(* (39.5625)                                                                *)
C12_Witness ==
    /\ ret.kind = "breakdown"
    /\ ret.task_data.status # "completed"
    /\ \/ ret.task_data.rolled_over_count = 4 /\ ret.breakdown.penalties = 24
       \/ ret.task_data.rolled_over_count = 5 /\ ret.breakdown.penalties = 25

-----------------------------------------------------------------------------
(* Successive rollovers of one task T: T is scheduled once, rolled from day *)
(* to day, and the abandoned instance of a day is removed so that the day   *)
(* can take T again.                                                        *)

MaxInserted == 14  \* process_rollover inserts instances up to this id

NextSuccessive ==
    \/ \E d \in Dates :
          /\ tasks = {}
          /\ quick_add_task(d, ValidData)
    \/ \E id \in RequestIds : remove_daily_task(id)
    \/ \E from_date, to_date \in Dates :
          /\ process_rollover(from_date, to_date)
          /\ next_daily_id' <= MaxInserted + 1

SpecSuccessive == Init /\ [][NextSuccessive]_vars

(* C13: the penalty that process_rollover stores on an instance it inserts  *)
(* is non-decreasing in the rollover count and never above 25, however many *)
(* times the task is rolled.                                                *)
C13_StoredPenaltyBounded ==
    \A r \in daily_tasks :
        /\ r.penalty_points <= 25
        /\ \A s \in daily_tasks :
              r.rolled_over_count <= s.rolled_over_count
                  => r.penalty_points <= s.penalty_points

-----------------------------------------------------------------------------
(* Scheduling with the counters of the request: add_task_to_day stores the  *)
(* rolled_over_count and penalty_points that the request body carries.      *)

AddRequests ==
    [task_id : {1}, rolled_over_count : {ABSENT, -2, 3}, penalty_points : {ABSENT, 10}]

NextCarried ==
    \/ \E d \in Dates :
          /\ tasks = {}
          /\ next_daily_id <= MaxDaily
          /\ quick_add_task(d, ValidData)
    \/ \E d \in Dates, data \in AddRequests :
          /\ next_daily_id <= MaxDaily
          /\ add_task_to_day(d, data)
    \/ \E from_date, to_date \in Dates :
          /\ process_rollover(from_date, to_date)
          /\ next_daily_id' <= MaxDaily + 1

SpecCarried == Init /\ [][NextCarried]_vars

(* The instance that a rollover step rolled task_id from: it was incomplete *)
(* before the step and is abandoned after it                                *)
C14_RolledFrom(task_id) ==
    {r \in daily_tasks :
        /\ r.task_id = task_id
        /\ r.status \in {"pending", "in_progress"}
        /\ \E o \in daily_tasks' : o.id = r.id /\ o.status = "abandoned"}

(* C14: the penalty_points of every instance that process_rollover inserts  *)
(* is >= 0 and >= the penalty_points of the instance it was rolled from,    *)
(* whatever counters that instance was scheduled with.                      *)
C14_PenaltyNeverDecreases ==
    [][ret'.kind = "rollover" =>
          \A i \in 1..Len(ret'.tasks) :
              /\ ret'.tasks[i].penalty_points >= 0
              /\ \A r \in C14_RolledFrom(ret'.tasks[i].task_id) :
                    ret'.tasks[i].penalty_points >= r.penalty_points]_vars

(* C15: when process_rollover(from_date, to_date) returns, no instance on   *)
(* from_date is pending or in_progress.                                     *)
C15_NothingLeftIncomplete ==
    [][\A from_date, to_date \in Dates :
          process_rollover(from_date, to_date) =>
              \A r \in daily_tasks' :
                  r.scheduled_date = from_date
                      => r.status \notin {"pending", "in_progress"}]_vars

-----------------------------------------------------------------------------
(* PUT /tasks/<task_id>.  The UPDATE leaves parent_id and archived alone;   *)
(* when no row has the id, dict(cursor.fetchone()) raises after the commit  *)
(* and the error handler answers 500.                                       *)
update_task(task_id, data) ==
    LET errors == validate_task_data(data)
        updated == {IF t.id = task_id
                    THEN [t EXCEPT !.complexity = Get(data.complexity, 3),
                                   !.cognitive_load =
                                       GetLoad(data.cognitive_load, "active_work"),
                                   !.time_estimate = Get(data.time_estimate, 30)]
                    ELSE t : t \in tasks}
    IN  /\ IF errors # {}
           THEN /\ ret' = Error(400)
                /\ UNCHANGED tasks
           ELSE /\ tasks' = updated
                /\ ret' = IF TaskById(tasks, task_id) = {} THEN Error(500)
                          ELSE [kind |-> "task", code |-> 200, id |-> task_id]
        /\ UNCHANGED <<daily_tasks, next_task_id, next_daily_id>>
        /\ MotivationUnchanged

(* delete_task as a hard delete of the row *)
delete_task_destroying(task_id) ==
    /\ tasks' = {t \in tasks : t.id # task_id}
    /\ ret' = [kind |-> "success", code |-> 200]
    /\ UNCHANGED <<daily_tasks, next_task_id, next_daily_id, achievements,
                   times_unlocked, challenge_history, today>>

(* DELETE /tasks/<task_id> *)
delete_task(task_id) ==
    /\ tasks' = {IF t.id = task_id THEN [t EXCEPT !.archived = TRUE] ELSE t : t \in tasks}
    /\ ret' = Success(200)
    /\ UNCHANGED <<daily_tasks, next_task_id, next_daily_id>>
    /\ MotivationUnchanged

-----------------------------------------------------------------------------
(* Requests that the handlers reject, among requests that they accept: task *)
(* data with each field valid or not, a second scheduling of a task on the  *)
(* day, and every pair of instances as child and parent.                    *)

MaxStored == 3     \* tasks and instances are created up to this id

RequestData ==
    [title : {"", "t"},
     complexity : {0, 3, 6},
     cognitive_load : {"deep_work", "unrecognized"},
     time_estimate : {-1, 30, 60},
     parent_id : {ABSENT}]

NextReject ==
    \/ \E data \in RequestData :
          /\ create_task(data)
          /\ next_task_id' <= MaxStored + 1
    \/ \E t \in 1..MaxStored, data \in RequestData : update_task(t, data)
    \/ \E data \in RequestData :
          /\ quick_add_task(today, data)
          /\ next_task_id' <= MaxStored + 1
          /\ next_daily_id' <= MaxStored + 1
    \/ \E t \in tasks :
          /\ add_task_to_day(today, AddDefault(t.id))
          /\ next_daily_id' <= MaxStored + 1
    \/ \E id \in RequestIds, parent \in RequestIds \cup {NULL} :
          set_task_parent(id, parent)

SpecReject == Init /\ [][NextReject]_vars

(* C16: a request that is rejected (answered with an error) leaves the      *)
(* stored tasks and the scheduled instances as they were.                   *)
C16_RejectedChangesNothing ==
    [][ret'.kind = "error" => (tasks' = tasks /\ daily_tasks' = daily_tasks)]_vars

(* A request was rejected while a task with a subtask and its instances     *)
(* were stored: the rejections of set_task_parent and of add_task_to_day    *)
(* are possible there.                                                      *)
C16_Witness ==
    /\ ret = Error(400)
    /\ \E t \in tasks : t.parent_id # NULL
    /\ Cardinality(daily_tasks) >= 2

(* C17: every scheduled instance references an existing Task, because a    *)
(* request that names a missing task or instance is rejected.               *)
C17_InstancesReferenceTasks ==
    \A r \in daily_tasks : TaskById(tasks, r.task_id) # {}

-----------------------------------------------------------------------------
(* Archiving: tasks are scheduled, worked on and archived, and the          *)
(* statistics are read.                                                     *)

NextArchive ==
    \/ \E d \in Dates, data \in {ValidData, HardData} :
          /\ next_task_id <= MaxTasks
          /\ quick_add_task(d, data)
    \/ \E id \in RequestIds, s \in Statuses : update_task_status(id, s, 12)
    \/ \E t \in 1..MaxTasks : delete_task(t)
    \/ get_user_stats

SpecArchive == Init /\ [][NextArchive]_vars

(* C18: delete_task only sets the archived flag of the task: every Task row *)
(* and every scheduled instance stays stored, and total completed, current  *)
(* and longest streak, total XP and level are the same before and after.    *)
C18_ArchiveKeepsHistory ==
    [][\A t \in 1..MaxTasks :
          delete_task(t) =>
              /\ daily_tasks' = daily_tasks
              /\ tasks' = {[x EXCEPT !.archived = (x.archived \/ x.id = t)] : x \in tasks}
              /\ Cardinality(tasks') = Cardinality(tasks)
              /\ user_stats_of(tasks', daily_tasks', today')
                   = user_stats_of(tasks, daily_tasks, today)]_vars

(* A task with a completed instance has been archived *)
C18_Witness ==
    /\ ret = Success(200)
    /\ \E t \in tasks :
          /\ t.archived
          /\ \E r \in daily_tasks : r.task_id = t.id /\ r.status = "completed"
    /\ user_stats_of(tasks, daily_tasks, today).total_completed >= 1
    /\ user_stats_of(tasks, daily_tasks, today).total_xp >= 80

-----------------------------------------------------------------------------
(* GET /streak of src/blueprints/motivation.py.  No statement of the source *)
(* inserts into or updates the table user_stats, so its MAX(longest_streak) *)
(* is NULL.                                                                 *)

user_stats == {}

get_streak ==
    /\ \E current_streak \in
            {_calculate_current_streak(completed_dates_of(daily_tasks), today)} :
          LET longest == {r.longest_streak : r \in user_stats}
              row_longest == IF longest = {} THEN NULL
                             ELSE CHOOSE m \in longest : \A o \in longest : m >= o
              longest_streak == IF row_longest # NULL /\ row_longest # 0
                                THEN row_longest ELSE current_streak
          IN  ret' = [kind |-> "streak", code |-> 200,
                      current_streak |-> current_streak,
                      longest_streak |-> IF current_streak > longest_streak
                                         THEN current_streak ELSE longest_streak]
    /\ UNCHANGED <<tasks, daily_tasks, next_task_id, next_daily_id,
                   achievements, times_unlocked, challenge_history, today>>

NextStreakRoute == get_streak

SpecStreakRoute == InitStreak /\ [][NextStreakRoute]_vars

(* C19: the longest_streak that GET /streak returns is the longest run of   *)
(* consecutive completed dates of the log, the value of                     *)
(* _calculate_longest_streak in the same state.                             *)
C19_StreakEndpointFollowsLog ==
    ret.kind = "streak" =>
        ret.longest_streak = _calculate_longest_streak(completed_dates_of(daily_tasks))

-----------------------------------------------------------------------------
(* calculate_level_from_xp, applied to a total XP: ret holds the argument   *)
(* of the call in flight, and the level once the call has returned.         *)

MaxXp == 60600     \* total XP is 0..MaxXp; level 51 would begin at 60512

calculate_level ==
    /\ ret.kind = "level_call"
    /\ ret' = [kind |-> "level", total_xp |-> ret.total_xp,
               level |-> calculate_level_from_xp(ret.total_xp)]
    /\ UNCHANGED <<tasks, daily_tasks, next_task_id, next_daily_id,
                   achievements, times_unlocked, challenge_history, today>>

InitLevel ==
    /\ tasks = {}
    /\ daily_tasks = {}
    /\ next_task_id = 1
    /\ next_daily_id = 1
    /\ achievements = {}
    /\ times_unlocked = <<>>
    /\ challenge_history = {}
    /\ today = 1
    /\ ret \in [kind : {"level_call"}, total_xp : 0..MaxXp]

NextLevel == calculate_level

SpecLevel == InitLevel /\ [][NextLevel]_vars

(* C20 as stated: the level is the largest L in 1..50 whose threshold       *)
(* floor(50 * L^1.8 + 25 * L) is <= the total XP.                           *)
C20_LargestLevelOnCurve ==
    ret.kind = "level" =>
        /\ ret.level \in 1..50
        /\ xp_curve[ret.level] <= ret.total_xp
        /\ \A L \in 1..50 : xp_curve[L] <= ret.total_xp => L <= ret.level

(* The threshold of a level: 0 for level 1, the curve from level 2 on *)
C20_Threshold(L) == IF L = 1 THEN 0 ELSE xp_curve[L]

(* C20, corrected: the level is the largest L in 1..50 whose threshold is   *)
(* <= the total XP, where the threshold of level 1 is 0 and that of a level *)
(* L >= 2 is floor(50 * L^1.8 + 25 * L); the level is non-decreasing in the *)
(* XP and never above 50.                                                   *)
C20_LargestLevelFromOne ==
    ret.kind = "level" =>
        /\ ret.level \in 1..50
        /\ C20_Threshold(ret.level) <= ret.total_xp
        /\ \A L \in 1..50 : C20_Threshold(L) <= ret.total_xp => L <= ret.level
        /\ ret.total_xp > 0 => calculate_level_from_xp(ret.total_xp - 1) <= ret.level

(* The cap: an XP that the curve would place at level 51 *)
C20_Witness ==
    /\ ret.kind = "level"
    /\ ret.total_xp >= xp_curve[51]
    /\ ret.level = 50

-----------------------------------------------------------------------------
(* GamificationEngine.calculate_task_xp.  The multipliers are kept as       *)
(* integers (tenths, hundredths); int(xp) is the floor of the exact product *)
(* for every call of XpCalls (the double product falls below an exact       *)
(* integer only under the streak multipliers 1.25, 1.4 and 2.5, which need  *)
(* a streak of 7 or more).                                                  *)

(* MULTIPLIERS['streak']: the multiplier of the highest threshold not above *)
(* the streak length, 1.0 when there is none; in hundredths                 *)
MULTIPLIERS_streak(streak_length) ==
    IF streak_length >= 365 THEN 300
    ELSE IF streak_length >= 180 THEN 250
    ELSE IF streak_length >= 90 THEN 200
    ELSE IF streak_length >= 60 THEN 180
    ELSE IF streak_length >= 30 THEN 160
    ELSE IF streak_length >= 14 THEN 140
    ELSE IF streak_length >= 7 THEN 125
    ELSE IF streak_length >= 3 THEN 110
    ELSE 100

calculate_task_xp(task_data, streak_length, is_challenge_day, time_of_completion) ==
    LET complexity == Get(task_data.complexity, 3)
        base_xp == complexity * 10
        load_mult == MULTIPLIERS_cognitive_load(
                         GetLoad(task_data.cognitive_load, "active_work"))
        complexity_mult == MULTIPLIERS_complexity(complexity)
        time_bonus == (Get(task_data.time_estimate, 30) \div 30) * 5
        streak_mult == MULTIPLIERS_streak(streak_length)
        hour_mult == IF time_of_completion = NULL THEN 10
                     ELSE IF time_of_completion < 7 THEN 12
                     ELSE IF time_of_completion >= 22 THEN 11
                     ELSE 10
        challenge_mult == IF is_challenge_day THEN 13 ELSE 10
    IN  ((base_xp + time_bonus) * load_mult * complexity_mult * streak_mult
            * hour_mult * challenge_mult) \div 1000000

(* A call of calculate_task_xp: ret holds the arguments of the call in      *)
(* flight, and the XP once the call has returned.                           *)
task_xp_call ==
    /\ ret.kind = "xp_call"
    /\ ret' = [kind |-> "xp",
               task_data |-> ret.task_data,
               streak_length |-> ret.streak_length,
               is_challenge_day |-> ret.is_challenge_day,
               time_of_completion |-> ret.time_of_completion,
               xp |-> calculate_task_xp(ret.task_data, ret.streak_length,
                                        ret.is_challenge_day, ret.time_of_completion)]
    /\ UNCHANGED <<tasks, daily_tasks, next_task_id, next_daily_id,
                   achievements, times_unlocked, challenge_history, today>>

XpCalls ==
    [kind : {"xp_call"},
     task_data : [complexity : 1..5,
                  cognitive_load : valid_loads,
                  time_estimate : {0, 30, 45, 60}],
     streak_length : {0, 2, 3},
     is_challenge_day : BOOLEAN,
     time_of_completion : {NULL, 6, 12, 22}]

InitXp ==
    /\ tasks = {}
    /\ daily_tasks = {}
    /\ next_task_id = 1
    /\ next_daily_id = 1
    /\ achievements = {}
    /\ times_unlocked = <<>>
    /\ challenge_history = {}
    /\ today = 1
    /\ ret \in XpCalls

NextXp == task_xp_call

SpecXp == InitXp /\ [][NextXp]_vars

(* C21: with a streak below 3, no completion time and no challenge day,     *)
(* calculate_task_xp returns the task's score_task value (the multipliers   *)
(* of streak, time of day and challenge day all being 1).                   *)
C21_XpIsScore ==
    (/\ ret.kind = "xp"
     /\ ret.streak_length < 3
     /\ ret.time_of_completion = NULL
     /\ ~ret.is_challenge_day)
        => ret.xp = calculate_task_points(ret.task_data)

-----------------------------------------------------------------------------
(* AchievementEngine.get_all_achievements and _calculate_progress *)

(* min(100, int(current / requirement * 100)): the double quotient times    *)
(* 100 is below the exact integer when the ratio is 0.29, 0.57 or 0.58.     *)
percentage_of(current, requirement) ==
    IF requirement > 0
    THEN LET exact == (current * 100) \div requirement
             int == IF \E k \in {29, 57, 58} : current * 100 = k * requirement
                    THEN exact - 1 ELSE exact
         IN  IF int < 100 THEN int ELSE 100
    ELSE 0

_calculate_progress(achievement, stats) ==
    LET achievement_id == achievement.id
        passes(test) == test \in achievement.id_tests
        current ==
            IF passes("task_*") \/ achievement_id = "first_task"
            THEN stats.total_completed
            ELSE IF passes("streak_*")
            THEN IF stats.current_streak >= stats.longest_streak
                 THEN stats.current_streak ELSE stats.longest_streak
            ELSE IF passes("*points*")
            THEN IF passes("*day*") THEN stats.best_daily_points
                 ELSE stats.total_points
            ELSE IF passes("deep_work_*") THEN cognitive_count(stats, "deep_work")
            ELSE IF passes("learning_*") THEN cognitive_count(stats, "learning")
            ELSE IF passes("*complexity_5*") THEN stats.complexity_5_count
            ELSE IF passes("challenge_*") THEN stats.challenges_completed
            ELSE IF passes("*early_bird*") THEN stats.early_bird_count
            ELSE IF passes("*night_owl*") THEN stats.night_owl_count
            ELSE IF passes("*comeback*") THEN stats.comeback_count
            ELSE IF passes("*perfect*") THEN stats.perfect_days
            ELSE 0
    IN  [current |-> current,
         target |-> achievement.requirement,
         percentage |-> percentage_of(current, achievement.requirement)]

(* GET /achievements: for every achievement whether it is unlocked, and its *)
(* progress                                                                 *)
get_all_achievements ==
    /\ \E stats \in {_gather_user_stats} :
          ret' = [kind |-> "all_achievements", code |-> 200,
                  unlocked |-> achievements,
                  progress |->
                      [id \in {ACHIEVEMENTS[i].id : i \in 1..Len(ACHIEVEMENTS)} |->
                          _calculate_progress(
                              CHOOSE a \in {ACHIEVEMENTS[i] : i \in 1..Len(ACHIEVEMENTS)} :
                                  a.id = id,
                              stats)]]
    /\ UNCHANGED <<tasks, daily_tasks, next_task_id, next_daily_id,
                   achievements, times_unlocked, challenge_history, today>>

(* One task of each cognitive load, each scheduled today or not, and        *)
(* completed or not                                                         *)
LoadOrder == <<"deep_work", "learning", "active_work", "admin">>

InitProgress ==
    \E log \in [1..4 -> {"none", "pending", "completed"}] :
        /\ tasks = {[NewTaskRow(i, ValidData, NULL) EXCEPT !.cognitive_load = LoadOrder[i]]
                      : i \in 1..4}
        /\ daily_tasks =
               {[NewDailyRow(i, i, 1, 0, 0) EXCEPT
                    !.status = log[i],
                    !.completed_at = IF log[i] = "completed" THEN 12 ELSE NULL]
                  : i \in {x \in 1..4 : log[x] # "none"}}
        /\ next_task_id = 5
        /\ next_daily_id = 5
        /\ achievements = {}
        /\ times_unlocked = <<>>
        /\ challenge_history = {}
        /\ today = 1
        /\ ret = [kind |-> "none", code |-> 0]

NextProgress ==
    \/ get_all_achievements
    \/ check_achievements

SpecProgress == InitProgress /\ [][NextProgress]_vars

(* C22: for every achievement that is not hidden and not unlocked, the      *)
(* reported percentage is 100 exactly when check_achievements would unlock  *)
(* the achievement in the same state.                                       *)
C22_ProgressMatchesUnlock ==
    ret.kind = "all_achievements" =>
        \A i \in 1..Len(ACHIEVEMENTS) :
            (~ACHIEVEMENTS[i].hidden /\ ACHIEVEMENTS[i].id \notin achievements) =>
                ((ret.progress[ACHIEVEMENTS[i].id].percentage = 100)
                    <=> _check_achievement_requirement(ACHIEVEMENTS[i], _gather_user_stats))

-----------------------------------------------------------------------------
(* Challenge selection over six dates: GET /daily-challenge/<date> for any  *)
(* date that has no stored challenge, before and after one hard task is     *)
(* scheduled today.                                                         *)

MaxChallengeDay == 6

ChallengeDays == 1..MaxChallengeDay

NextSelect ==
    \/ /\ tasks = {}
       /\ quick_add_task(today, HardData)
    \/ \E d \in ChallengeDays, pick \in 1..MaxPick :
          /\ ChallengeOn(challenge_history, d) = {}
          /\ get_daily_challenge(d, pick, 0)

SpecSelect == Init /\ [][NextSelect]_vars

(* The ids of the 5 most recently dated entries of the history among those  *)
(* dated no earlier than 7 days before the target date                      *)
C23_Last5(history, d) ==
    LET window == {h \in history : h.challenge_date >= d - 7}
    IN  {h.challenge_id : h \in {x \in window :
            Cardinality({y \in window : y.challenge_date > x.challenge_date}) < 5}}

(* C23: the challenge that get_daily_challenge selects for a date with no   *)
(* stored challenge is never one of the last 5 challenge ids of the         *)
(* history of the 7 days before the date.                                   *)
C23_NotRecentlyUsed ==
    [][\A d \in ChallengeDays :
          ( /\ ChallengeOn(challenge_history, d) = {}
            /\ ChallengeOn(challenge_history', d) # {}
            /\ ret'.kind = "challenge"
            /\ ret'.date = d )
          => ret'.id \notin C23_Last5(challenge_history, d)]_vars

(* A challenge was selected for a date when five others were in the window *)
C23_Witness ==
    /\ ret.kind = "challenge"
    /\ ~ret.existing
    /\ Cardinality(C23_Last5(challenge_history \ ChallengeOn(challenge_history, ret.date),
                             ret.date)) = 5

-----------------------------------------------------------------------------
(* TrendsEngine._analyze_trend: the direction of the least-squares slope of *)
(* the daily completion rates.  A rate is round(completed / total * 100, 1) *)
(* and is held in tenths of a percent.                                      *)

MaxSeries == 4

(* The completion rates of the days of a window *)
Rates == {0, 5, 6, 10, 12, 30, 500, 501, 502, 1000}

(* sum(...) over the first n entries of a list *)
RECURSIVE sum_of(_, _)
sum_of(terms, n) == IF n = 0 THEN 0 ELSE terms[n] + sum_of(terms, n - 1)

(* numerator and denominator of the slope, both times n * n, the numerator  *)
(* in tenths: x[i] - x_mean is (n * x[i] - sum(x)) / n                      *)
numerator(y) ==
    LET n == Len(y)
        sum_x == (n * (n - 1)) \div 2
        sum_y == sum_of(y, n)
    IN  sum_of([i \in 1..n |-> (n * (i - 1) - sum_x) * (n * y[i] - sum_y)], n)

denominator(y) ==
    LET n == Len(y)
        sum_x == (n * (n - 1)) \div 2
    IN  sum_of([i \in 1..n |-> (n * (i - 1) - sum_x) * (n * (i - 1) - sum_x)], n)

(* The series of Rates, of at most MaxSeries + 1 days, whose slope is a     *)
(* threshold exactly and whose slope in double arithmetic is above it       *)
float_above ==
    {<<0, 0, 5, 30, 10>>, <<0, 0, 500, 30, 10>>, <<0, 0, 1000, 30, 10>>,
     <<0, 10, 1000, 0, 30>>, <<5, 0, 501, 0, 30>>, <<5, 5, 500, 5, 30>>,
     <<5, 12, 501, 12, 30>>, <<5, 30, 500, 30, 30>>, <<5, 500, 502, 500, 30>>,
     <<5, 501, 501, 501, 30>>, <<5, 502, 501, 502, 30>>, <<5, 502, 1000, 502, 30>>,
     <<6, 10, 502, 12, 30>>, <<6, 500, 502, 502, 30>>, <<10, 0, 502, 10, 30>>,
     <<10, 30, 1000, 0, 0>>, <<30, 0, 501, 0, 5>>, <<30, 0, 1000, 10, 0>>,
     <<30, 5, 500, 5, 5>>, <<30, 6, 500, 6, 5>>, <<30, 6, 502, 6, 5>>,
     <<30, 10, 502, 0, 10>>, <<30, 12, 501, 12, 5>>, <<30, 12, 1000, 10, 6>>,
     <<30, 30, 500, 30, 5>>, <<30, 500, 502, 500, 5>>, <<30, 501, 501, 501, 5>>,
     <<30, 502, 501, 502, 5>>, <<30, 502, 502, 500, 6>>, <<30, 502, 1000, 502, 5>>,
     <<30, 1000, 0, 6, 502>>, <<30, 1000, 5, 6, 502>>, <<30, 1000, 5, 10, 500>>,
     <<30, 1000, 6, 6, 502>>, <<30, 1000, 6, 10, 500>>, <<30, 1000, 10, 6, 502>>,
     <<30, 1000, 12, 6, 502>>, <<30, 1000, 30, 6, 502>>, <<30, 1000, 30, 10, 500>>,
     <<30, 1000, 500, 6, 502>>, <<30, 1000, 501, 6, 502>>, <<30, 1000, 502, 6, 502>>,
     <<30, 1000, 1000, 6, 502>>, <<500, 10, 0, 1000, 30>>, <<500, 10, 12, 1000, 30>>}

(* slope > threshold, the threshold in tenths *)
slope_above(y, threshold) ==
    \/ numerator(y) > threshold * denominator(y)
    \/ /\ numerator(y) = threshold * denominator(y)
       /\ y \in float_above

(* _analyze_trend with 'improving' from a slope of 1 *)
_analyze_trend_steep(daily_metrics) ==
    IF Len(daily_metrics) < 3 THEN "insufficient_data"
    ELSE IF slope_above(daily_metrics, 20) THEN "strongly_improving"
    ELSE IF slope_above(daily_metrics, 10) THEN "improving"
    ELSE IF slope_above(daily_metrics, 0 - 5) THEN "stable"
    ELSE IF slope_above(daily_metrics, 0 - 20) THEN "declining"
    ELSE "strongly_declining"

(* The 'direction' of _analyze_trend *)
_analyze_trend(daily_metrics) ==
    IF Len(daily_metrics) < 3 THEN "insufficient_data"
    ELSE IF slope_above(daily_metrics, 20) THEN "strongly_improving"
    ELSE IF slope_above(daily_metrics, 5) THEN "improving"
    ELSE IF slope_above(daily_metrics, 0 - 5) THEN "stable"
    ELSE IF slope_above(daily_metrics, 0 - 20) THEN "declining"
    ELSE "strongly_declining"

(* A call of _analyze_trend on the series that was drawn *)
analyze_trend_call ==
    /\ ret.kind = "trend_call"
    /\ ret' = [kind |-> "trend", code |-> 200,
               daily_metrics |-> ret.daily_metrics,
               direction |-> _analyze_trend(ret.daily_metrics)]
    /\ UNCHANGED <<tasks, daily_tasks, next_task_id, next_daily_id,
                   achievements, times_unlocked, challenge_history, today>>

InitTrend ==
    /\ tasks = {}
    /\ daily_tasks = {}
    /\ next_task_id = 1
    /\ next_daily_id = 1
    /\ achievements = {}
    /\ times_unlocked = <<>>
    /\ challenge_history = {}
    /\ today = 1
    /\ \E n \in 2..MaxSeries : \E y \in [1..n -> Rates] :
          ret = [kind |-> "trend_call", code |-> 0, daily_metrics |-> y]

NextTrend == analyze_trend_call

SpecTrend == InitTrend /\ [][NextTrend]_vars

(* The series rises strictly from day to day, by at least `step` tenths *)
C24_Rising(y, step) ==
    /\ Len(y) >= 3
    /\ \A i \in 1..(Len(y) - 1) : y[i + 1] - y[i] >= step

(* C24 as stated: every series of at least 3 daily completion rates that is *)
(* strictly increasing is reported as improving or strongly_improving.      *)
C24_RisingIsImproving ==
    (ret.kind = "trend" /\ C24_Rising(ret.daily_metrics, 1))
        => ret.direction \in {"improving", "strongly_improving"}

(* C24, corrected: a strictly increasing series of at least 3 rates is      *)
(* never reported as declining, and it is reported as improving or          *)
(* strongly_improving when every day rises by more than 0.5 points.         *)
C24_RisingByHalfIsImproving ==
    ret.kind = "trend" =>
        /\ C24_Rising(ret.daily_metrics, 1)
              => ret.direction \in {"stable", "improving", "strongly_improving"}
        /\ C24_Rising(ret.daily_metrics, 6)
              => ret.direction \in {"improving", "strongly_improving"}

(* A series that rises by 0.6 points a day was analysed *)
C24_Witness ==
    /\ ret.kind = "trend"
    /\ C24_Rising(ret.daily_metrics, 6)
    /\ ret.daily_metrics[Len(ret.daily_metrics)] - ret.daily_metrics[1]
           = 6 * (Len(ret.daily_metrics) - 1)
    /\ ret.direction = "improving"

-----------------------------------------------------------------------------
(* The frame of process_rollover, its repetition, and completed_at, while   *)
(* one task is scheduled, worked on, removed and rolled over                *)

C25_Ids(dts) == {r.id : r \in dts}

(* C25: process_rollover(from_date, to_date) with from_date # to_date       *)
(* changes nothing except the from_date instances that were pending or      *)
(* in_progress, which it may set to abandoned, and the instances it inserts *)
(* on to_date; the Task rows are unchanged and rolled_over_count is the     *)
(* number of inserted instances.                                            *)
C25_RolloverFrame ==
    [][\A from_date, to_date \in Dates :
          ( /\ from_date # to_date
            /\ ret'.kind = "rollover"
            /\ process_rollover(from_date, to_date) )
          => /\ tasks' = tasks
             /\ \A r \in daily_tasks :
                   IF r.scheduled_date = from_date /\ r.status \in {"pending", "in_progress"}
                   THEN \/ r \in daily_tasks'
                        \/ [r EXCEPT !.status = "abandoned"] \in daily_tasks'
                   ELSE r \in daily_tasks'
             /\ C25_Ids(daily_tasks) \subseteq C25_Ids(daily_tasks')
             /\ \A n \in daily_tasks' :
                   n.id \notin C25_Ids(daily_tasks) => n.scheduled_date = to_date
             /\ Cardinality(daily_tasks') = Cardinality(C25_Ids(daily_tasks'))
             /\ ret'.rolled_over_count
                    = Cardinality(C25_Ids(daily_tasks') \ C25_Ids(daily_tasks))]_vars

(* A rollover inserted one instance and abandoned its source while a        *)
(* completed instance was stored on a third date                            *)
C25_Witness ==
    /\ ret.kind = "rollover"
    /\ ret.rolled_over_count = 1
    /\ \E a, n, c \in daily_tasks :
          /\ n.id = ret.tasks[1].id
          /\ n.status = "pending"
          /\ a.status = "abandoned"
          /\ a.task_id = n.task_id
          /\ a.scheduled_date # n.scheduled_date
          /\ c.status = "completed"
          /\ c.scheduled_date \notin {a.scheduled_date, n.scheduled_date}

(* C26: process_rollover(from_date, to_date) made again right after a first *)
(* call, with from_date # to_date, returns rolled_over_count = 0 and an     *)
(* empty task list and leaves every stored instance unchanged.              *)
C26_RolloverIdempotent ==
    [][\A from_date, to_date \in Dates :
          ( /\ from_date # to_date
            /\ ret'.kind = "rollover"
            /\ process_rollover(from_date, to_date) )
          => \A again \in rollover_outcomes(daily_tasks', tasks', next_daily_id',
                                            from_date, to_date) :
                /\ again.rolled_over = <<>>
                /\ again.daily_tasks = daily_tasks'
                /\ again.next_daily_id = next_daily_id']_vars

(* A rollover that inserted an instance was followed by a rollover that     *)
(* returned nothing                                                         *)
C26_Witness ==
    /\ ret.kind = "rollover"
    /\ ret.rolled_over_count = 0
    /\ ret.tasks = <<>>
    /\ \E a, n \in daily_tasks :
          /\ a.status = "abandoned"
          /\ n.status = "pending"
          /\ n.task_id = a.task_id
          /\ n.rolled_over_count = a.rolled_over_count + 1
          /\ n.scheduled_date # a.scheduled_date

(* C27: a scheduled instance has a completed_at exactly when its status is  *)
(* completed.                                                               *)
C27_CompletedAtIffCompleted ==
    \A r \in daily_tasks : (r.completed_at # NULL) <=> (r.status = "completed")

(* One instance is completed and stamped, and another, rolled from an       *)
(* abandoned one, is not                                                    *)
C27_Witness ==
    \E c, a, n \in daily_tasks :
        /\ c.status = "completed" /\ c.completed_at # NULL
        /\ a.status = "abandoned" /\ a.completed_at = NULL
        /\ n.status = "in_progress" /\ n.completed_at = NULL
        /\ n.rolled_over_count = 1

-----------------------------------------------------------------------------
(* The responses of check_challenge_completion over calls and task changes *)

(* C28: check_challenge_completion(date) returns just_completed = true only *)
(* in the call that flips the stored flag, and the flag once set stays set, *)
(* so at most once per date; a call for a date whose challenge is stored as *)
(* completed returns completed = true and just_completed = false; a call    *)
(* for a date with no stored challenge returns completed = false and        *)
(* just_completed = false and stores nothing.                               *)
C28_JustCompletedOnce ==
    [][/\ \A h \in challenge_history :
             h.completed => h \in challenge_history'
       /\ \A d \in Dates :
             (ret'.kind = "completion" /\ check_challenge_completion(d)) =>
                LET before == ChallengeOn(challenge_history, d)
                    after == ChallengeOn(challenge_history', d)
                IN  /\ ret'.just_completed =>
                          /\ ret'.completed
                          /\ before # {}
                          /\ \A h \in before : ~h.completed
                          /\ \A h \in after : h.completed
                    /\ (\E h \in before : h.completed) =>
                          /\ ret'.completed
                          /\ ~ret'.just_completed
                          /\ challenge_history' = challenge_history
                    /\ before = {} =>
                          /\ ~ret'.completed
                          /\ ~ret'.just_completed
                          /\ challenge_history' = challenge_history]_vars

(* A call for a date whose challenge was completed by an earlier call, made *)
(* while the task is completed: the requirement is met again                *)
C28_Witness ==
    /\ ret.kind = "completion"
    /\ ret.completed
    /\ ~ret.just_completed
    /\ \E h \in ChallengeOn(challenge_history, today) :
          /\ h.completed
          /\ requirement_met(ChallengeById(h.challenge_id).requirement, today)

-----------------------------------------------------------------------------
(* The unlock of streak_recovery *)

(* The log holds 7 consecutive completed days that begin after a day        *)
(* without a completion, and a completed day before that day                *)
C29_RecoveredRun ==
    LET completed_dates == completed_dates_of(daily_tasks)
    IN  \E start \in completed_dates :
          /\ \A k \in 0..6 : (start + k) \in completed_dates
          /\ (start - 1) \notin completed_dates
          /\ \E earlier \in completed_dates : earlier < start - 1

(* C29: check_achievements unlocks streak_recovery only in a state whose    *)
(* log contains a run of at least 7 consecutive completed days that begins  *)
(* after an earlier streak was broken.                                      *)
C29_RecoveryNeedsNewStreak ==
    [][("streak_recovery" \notin achievements /\ "streak_recovery" \in achievements')
          => C29_RecoveredRun]_vars

-----------------------------------------------------------------------------
(* Whether a selected challenge can be completed at all *)

MaxDayTasks == 10

C30_Load(i) ==
    IF i <= 5 THEN "active_work"
    ELSE IF i <= 8 THEN "deep_work"
    ELSE IF i = 9 THEN "learning"
    ELSE "admin"

(* Days of completed work: n tasks of complexity 5 and 60 minutes, five of  *)
(* active work, three of deep work, one of learning, the others admin, all  *)
(* scheduled on the date and completed without a penalty, the first of them *)
(* rolled over once                                                         *)
C30_DayStates(date_str) ==
    {[tasks |-> {[NewTaskRow(i, HardData, NULL) EXCEPT !.cognitive_load = C30_Load(i)]
                    : i \in 1..n},
      daily_tasks |-> {[NewDailyRow(i, i, date_str, IF i = 1 THEN 1 ELSE 0, 0) EXCEPT
                           !.status = "completed", !.completed_at = 12]
                         : i \in 1..n}]
        : n \in 1..MaxDayTasks}

C30_Completable(requirement, date_str) ==
    \E day \in C30_DayStates(date_str) :
        requirement_met_in(requirement, date_str, day.daily_tasks, day.tasks)

(* C30: for every challenge that get_daily_challenge selects there is a     *)
(* state of that day's instances in which check_challenge_completion sets   *)
(* completed = true.                                                        *)
C30_EverySelectedCompletable ==
    (ret.kind = "challenge" /\ ~ret.existing)
        => C30_Completable(ChallengeById(ret.id).requirement, ret.date)

====
